---- MODULE Spec2Model ----
(***************************************************************************)
(* Permit2TransferValidator (contracts/chainlink_permit2.sol) together     *)
(* with the three collaborators it calls: the Permit2 registry, the OFT    *)
(* token (an ERC20 that is its own LayerZero bridge) and the ledger's      *)
(* all-or-nothing transaction semantics.  One action per entry point; an   *)
(* entry point is a pure function from the pre-call world to the world the *)
(* transaction commits (or to the pre-call world when it reverts).         *)
(***************************************************************************)
EXTENDS Integers, Sequences, FiniteSets, TLC

(* ------------------------------ bounds --------------------------------- *)
\* Largest uint160 of the scaled model: stands for type(uint160).max.
MaxUint160 == 3
\* AllowanceTransfer nonces 0 .. MaxNonce-1 can be signed; bitmap bits likewise.
MaxNonce == 2
\* block.timestamp ranges over 1 .. MaxTime.
MaxTime == 2
\* Native currency the relayer starts with.
InitialNative == 2
\* Token units the owner starts with.
InitialBalance == 2

(* ----------------------------- addresses ------------------------------- *)
NullAddr == "0x0"
Validator == "validator"
PERMIT2 == "permit2"
Token == "oft"
Alice == "alice"
Bob == "bob"

Holders == {Alice, Bob, Validator}
Callers == {Alice, Bob}
ApprovedParties == {PERMIT2, Token, Alice, Bob}
NativeHolders == {Alice, Bob, Validator, Token}
SupportedEid == 40245
UnsupportedEid == SupportedEid + 1

VARIABLES
    balances,        \* Token.balanceOf
    tokenAllowance,  \* Token.allowance[<<owner, spender>>]
    allowance,       \* Permit2.allowance[owner = Alice][<<token, spender>>]
    nonceBitmap,     \* Permit2.nonceBitmap[owner = Alice], as the set of used bits
    nativeBalance,   \* native currency of every account
    outboundNonce,   \* messages the OFT has sent
    now,             \* block.timestamp
    used,            \* history: the permits whose presentation succeeded
    last             \* the entry point of the most recent committed transaction

chain == <<balances, tokenAllowance, allowance, nonceBitmap, nativeBalance, outboundNonce>>
vars == <<balances, tokenAllowance, allowance, nonceBitmap, nativeBalance, outboundNonce,
          now, used, last>>

(* ------------------------ transaction semantics ------------------------ *)
\* The world a transaction works on: the ledger state plus what the
\* transaction has done so far (external calls made, events logged).
Pre ==
    [bal |-> balances, tokAllow |-> tokenAllowance, p2 |-> allowance,
     bitmap |-> nonceBitmap, native |-> nativeBalance, out |-> outboundNonce,
     ok |-> TRUE, err |-> "", calls |-> <<>>, events |-> <<>>, guid |-> 0, sent |-> 0,
     sends |-> <<>>, sender |-> NullAddr]

\* msg.value moves from the caller to the contract as the call starts.
Begin(caller, value) ==
    [Pre EXCEPT !.native = [@ EXCEPT ![caller] = @ - value, ![Validator] = @ + value],
                !.sender = caller]

\* Faulty variant: a failure that is ignored.
NoFail(w, msg) == w

Fail(w, msg) == [w EXCEPT !.ok = FALSE, !.err = msg]

\* Faulty variant: a require that never fails.
NoRequire(w, cond, msg) == w

\* require(cond, msg)
Require(w, cond, msg) == IF w.ok /\ ~cond THEN Fail(w, msg) ELSE w

\* Faulty variant: the call is made ahead of the calls made so far.
CallFirst(w, c) == [w EXCEPT !.calls = <<c>> \o @]

\* An external call, noted in the order made.
Call(w, c) == [w EXCEPT !.calls = Append(@, c)]

\* Faulty variant: no log is written.
NoEmit(w, e) == w

\* emit
Emit(w, e) == IF w.ok THEN [w EXCEPT !.events = Append(@, e)] ELSE w

\* A failed require or a failed external call aborts the whole transaction:
\* the ledger keeps the pre-call state and no log survives.  The list of
\* calls attempted is kept as an observation only.
\* Faulty variant: a failure keeps what the transaction had done so far.
NoRollback(w) == w

Revert(w) == [Pre EXCEPT !.ok = FALSE, !.err = w.err, !.calls = w.calls]

Transaction(w) == IF w.ok THEN w ELSE Revert(w)

(* ------------------------------- ERC20 --------------------------------- *)
\* Token.approve(spender, amount) called by owner
\* Faulty variant: the approval is added to the one standing.
Erc20IncreaseAllowance(w, owner, spender, amount) ==
    IF ~w.ok THEN w
    ELSE LET c == Call(w, [fn |-> "approve", from |-> owner, to |-> spender, amt |-> amount])
         IN IF spender = NullAddr THEN Fail(c, "ERC20InvalidSpender")
            ELSE [c EXCEPT !.tokAllow = [@ EXCEPT ![<<owner, spender>>] = @ + amount]]

Erc20Approve(w, owner, spender, amount) ==
    IF ~w.ok THEN w
    ELSE LET c == Call(w, [fn |-> "approve", from |-> owner, to |-> spender, amt |-> amount])
         IN IF spender = NullAddr THEN Fail(c, "ERC20InvalidSpender")
            ELSE [c EXCEPT !.tokAllow = [@ EXCEPT ![<<owner, spender>>] = amount]]

\* Token.transferFrom(from, to, amount) called by spender
\* Faulty variant: the transfer moves the holder's whole balance.
Erc20TransferAll(w, spender, from, to, amount) ==
    IF ~w.ok THEN w
    ELSE IF w.tokAllow[<<from, spender>>] < amount THEN Fail(w, "ERC20InsufficientAllowance")
    ELSE IF w.bal[from] < amount THEN Fail(w, "ERC20InsufficientBalance")
    ELSE IF to \notin Holders THEN Fail(w, "ERC20InvalidReceiver")
    ELSE [w EXCEPT !.tokAllow = [@ EXCEPT ![<<from, spender>>] = @ - amount],
                   !.bal = [[@ EXCEPT ![from] = 0] EXCEPT ![to] = @ + w.bal[from]]]

\* Token.transferFrom(from, to, amount) called by spender
Erc20TransferFrom(w, spender, from, to, amount) ==
    IF ~w.ok THEN w
    ELSE IF w.tokAllow[<<from, spender>>] < amount THEN Fail(w, "ERC20InsufficientAllowance")
    ELSE IF w.bal[from] < amount THEN Fail(w, "ERC20InsufficientBalance")
    ELSE IF to \notin Holders THEN Fail(w, "ERC20InvalidReceiver")
    ELSE [w EXCEPT !.tokAllow = [@ EXCEPT ![<<from, spender>>] = @ - amount],
                   !.bal = [[@ EXCEPT ![from] = @ - amount] EXCEPT ![to] = @ + amount]]

(* ------------------------------ Permit2 -------------------------------- *)
\* signature.verify: the signature is the owner's over the presented permit.
\* A signature is modelled by who made it and, for SignatureTransfer, the
\* spender named in the signed message.
\* Faulty variant: any signature is taken for the owner's.
AnySig(signature, owner) == TRUE

VerifyAllowanceSig(signature, owner) == signature = owner
VerifyTransferSig(signature, owner, msgSender) ==
    signature.signer = owner /\ signature.spender = msgSender

\* IAllowanceTransfer.permit(owner, permitSingle, signature)
NoNonceBump(w, owner, permitSingle, signature) ==
    IF ~w.ok THEN w
    ELSE LET c == Call(w, [fn |-> "permit", from |-> owner, to |-> permitSingle.spender,
                           amt |-> permitSingle.amount])
             key == <<permitSingle.token, permitSingle.spender>>
         IN IF now > permitSingle.sigDeadline THEN Fail(c, "SignatureExpired")
            ELSE IF ~VerifyAllowanceSig(signature, owner) THEN Fail(c, "InvalidSigner")
            ELSE IF permitSingle.nonce # c.p2[key].nonce THEN Fail(c, "InvalidNonce")
            ELSE [c EXCEPT !.p2 = [@ EXCEPT ![key] =
                     [amount |-> permitSingle.amount,
                      expiration |-> permitSingle.expiration,
                      nonce |-> @.nonce]]]

\* Faulty variant: any sequence number from the current one on is taken,
\* and the next expected is the one after it.
Permit2PermitSkipping(w, owner, permitSingle, signature) ==
    IF ~w.ok THEN w
    ELSE LET c == Call(w, [fn |-> "permit", from |-> owner, to |-> permitSingle.spender,
                           amt |-> permitSingle.amount])
             key == <<permitSingle.token, permitSingle.spender>>
         IN IF now > permitSingle.sigDeadline THEN Fail(c, "SignatureExpired")
            ELSE IF ~VerifyAllowanceSig(signature, owner) THEN Fail(c, "InvalidSigner")
            ELSE IF permitSingle.nonce < c.p2[key].nonce THEN Fail(c, "InvalidNonce")
            ELSE [c EXCEPT !.p2 = [@ EXCEPT ![key] =
                     [amount |-> permitSingle.amount,
                      expiration |-> permitSingle.expiration,
                      nonce |-> permitSingle.nonce + 1]]]

Permit2Permit(w, owner, permitSingle, signature) ==
    IF ~w.ok THEN w
    ELSE LET c == Call(w, [fn |-> "permit", from |-> owner, to |-> permitSingle.spender,
                           amt |-> permitSingle.amount])
             key == <<permitSingle.token, permitSingle.spender>>
         IN IF now > permitSingle.sigDeadline THEN Fail(c, "SignatureExpired")
            ELSE IF ~VerifyAllowanceSig(signature, owner) THEN Fail(c, "InvalidSigner")
            ELSE IF permitSingle.nonce # c.p2[key].nonce THEN Fail(c, "InvalidNonce")
            ELSE [c EXCEPT !.p2 = [@ EXCEPT ![key] =
                     [amount |-> permitSingle.amount,
                      expiration |-> permitSingle.expiration,
                      nonce |-> @.nonce + 1]]]

\* IAllowanceTransfer.transferFrom(from, to, amount, token) called by msgSender
Permit2TransferFrom(w, msgSender, from, to, amount, token) ==
    IF ~w.ok THEN w
    ELSE LET c == Call(w, [fn |-> "transferFrom", from |-> from, to |-> to, amt |-> amount])
             key == <<token, msgSender>>
             allowed == c.p2[key]
         IN IF now > allowed.expiration THEN Fail(c, "AllowanceExpired")
            ELSE IF allowed.amount # MaxUint160 /\ amount > allowed.amount
                 THEN Fail(c, "InsufficientAllowance")
            ELSE LET d == IF allowed.amount = MaxUint160 THEN c
                          ELSE [c EXCEPT !.p2 = [@ EXCEPT ![key].amount = @ - amount]]
                 IN Erc20TransferFrom(d, PERMIT2, from, to, amount)

\* Faulty variant: one-shot nonces must be spent in increasing order.
Permit2PermitTransferFromInOrder(w, msgSender, permit, transferDetails, owner, signature) ==
    IF ~w.ok THEN w
    ELSE LET c == Call(w, [fn |-> "permitTransferFrom", from |-> owner,
                           to |-> transferDetails.to, amt |-> transferDetails.requestedAmount])
         IN IF now > permit.deadline THEN Fail(c, "SignatureExpired")
            ELSE IF transferDetails.requestedAmount > permit.amount THEN Fail(c, "InvalidAmount")
            ELSE IF permit.nonce \in c.bitmap THEN Fail(c, "InvalidNonce")
            ELSE IF \E n \in 0 .. (permit.nonce - 1) : n \notin c.bitmap THEN Fail(c, "InvalidNonce")
            ELSE IF ~VerifyTransferSig(signature, owner, msgSender) THEN Fail(c, "InvalidSigner")
            ELSE Erc20TransferFrom([c EXCEPT !.bitmap = @ \cup {permit.nonce}],
                                   PERMIT2, owner, transferDetails.to,
                                   transferDetails.requestedAmount)

\* ISignatureTransfer.permitTransferFrom(permit, transferDetails, owner, signature)
Permit2PermitTransferFrom(w, msgSender, permit, transferDetails, owner, signature) ==
    IF ~w.ok THEN w
    ELSE LET c == Call(w, [fn |-> "permitTransferFrom", from |-> owner,
                           to |-> transferDetails.to, amt |-> transferDetails.requestedAmount])
         IN IF now > permit.deadline THEN Fail(c, "SignatureExpired")
            ELSE IF transferDetails.requestedAmount > permit.amount THEN Fail(c, "InvalidAmount")
            ELSE IF permit.nonce \in c.bitmap THEN Fail(c, "InvalidNonce")
            ELSE IF ~VerifyTransferSig(signature, owner, msgSender) THEN Fail(c, "InvalidSigner")
            ELSE Erc20TransferFrom([c EXCEPT !.bitmap = @ \cup {permit.nonce}],
                                   PERMIT2, owner, transferDetails.to,
                                   transferDetails.requestedAmount)

(* ------------------------------- OFT ----------------------------------- *)
\* Faulty variant: the address is shifted out of the word.
AddressLost(a) == [high96 |-> 0, low160 |-> "0x0"]

\* bytes32(uint256(uint160(a))): the address in the low 160 bits, zeros above.
AddressToBytes32(a) == [high96 |-> 0, low160 |-> a]

\* IOFT.quoteSend(sendParam, false): the fee grows with the options payload.
QuoteSend(sendParam) == [nativeFee |-> 1 + Len(sendParam.extraOptions), lzTokenFee |-> 0]

\* IOFT.send{value}(sendParam, fee, refundAddress) called by msgSender:
\* burns amountLD from the caller, charges the quoted fee, refunds the rest.
OftSend(w, msgSender, sendParam, fee, refundAddress, value) ==
    IF ~w.ok THEN w
    ELSE LET c == [Call(w, [fn |-> "send", from |-> msgSender, to |-> sendParam.to,
                            amt |-> sendParam.amountLD])
                     EXCEPT !.sends = Append(@, [sendParam |-> sendParam, fee |-> fee,
                                                 refundAddress |-> refundAddress,
                                                 value |-> value])]
             required == QuoteSend(sendParam).nativeFee
         IN IF sendParam.dstEid # SupportedEid THEN Fail(c, "NoPeer")
            ELSE IF sendParam.amountLD < sendParam.minAmountLD THEN Fail(c, "SlippageExceeded")
            ELSE IF c.bal[msgSender] < sendParam.amountLD THEN Fail(c, "ERC20InsufficientBalance")
            ELSE IF value # fee.nativeFee THEN Fail(c, "NotEnoughNative")
            ELSE IF fee.nativeFee < required THEN Fail(c, "InsufficientFee")
            ELSE [c EXCEPT !.bal = [@ EXCEPT ![msgSender] = @ - sendParam.amountLD],
                           !.native = [[[@ EXCEPT ![msgSender] = @ - value]
                                           EXCEPT ![Token] = @ + required]
                                           EXCEPT ![refundAddress] = @ + (value - required)],
                           !.out = @ + 1,
                           !.guid = c.out + 1,
                           !.sent = sendParam.amountLD]

(* --------------------------- events emitted ---------------------------- *)
PermitValidated(owner, token, spender, amount) ==
    [name |-> "PermitValidated", from |-> owner, to |-> spender, token |-> token,
     amount |-> amount, dstEid |-> 0, messageId |-> 0]

TokensTransferred(from, to, token, amount) ==
    [name |-> "TokensTransferred", from |-> from, to |-> to, token |-> token,
     amount |-> amount, dstEid |-> 0, messageId |-> 0]

\* Faulty variant: the bridge event drops the message identifier.
TokensBridgedNoId(from, token, dstEid, dstAddress, amount, messageId) ==
    [name |-> "TokensBridged", from |-> from, to |-> dstAddress, token |-> token,
     amount |-> amount, dstEid |-> dstEid, messageId |-> 0]

TokensBridged(from, token, dstEid, dstAddress, amount, messageId) ==
    [name |-> "TokensBridged", from |-> from, to |-> dstAddress, token |-> token,
     amount |-> amount, dstEid |-> dstEid, messageId |-> messageId]

(* ------------------- Permit2TransferValidator: entry points ------------ *)
\* A PermitSingle is flattened: details.token, details.amount,
\* details.expiration, details.nonce, spender, sigDeadline.

\* Faulty variant: validatePermit with the spender check of the other entry points.
validatePermitChecked(w, permitSingle, signature, owner) ==
    LET w0 == Require(w, permitSingle.spender = Validator, "Invalid spender")
        w1 == Permit2Permit(w0, owner, permitSingle, signature)
    IN Emit(w1, PermitValidated(owner, permitSingle.token, permitSingle.spender,
                                permitSingle.amount))

\* Faulty variant: validatePermit that also pulls the permitted amount.
validatePermitPulling(w, permitSingle, signature, owner) ==
    LET w1 == Permit2Permit(w, owner, permitSingle, signature)
        w2 == Permit2TransferFrom(w1, permitSingle.spender, owner, Validator, permitSingle.amount, permitSingle.token)
    IN Emit(w2, PermitValidated(owner, permitSingle.token, permitSingle.spender,
                                permitSingle.amount))

validatePermit(w, permitSingle, signature, owner) ==
    LET w1 == Permit2Permit(w, owner, permitSingle, signature)
    IN Emit(w1, PermitValidated(owner, permitSingle.token, permitSingle.spender,
                                permitSingle.amount))

\* Faulty variant: the bound is checked before the recipient and the spender first of all.
validatePermitAndTransferReordered(w, permitSingle, signature, owner, recipient, amount) ==
    LET w1 == Require(w, permitSingle.spender = Validator, "Invalid spender")
        w2 == Require(w1, amount <= permitSingle.amount, "Amount exceeds permitted")
        w3 == Require(w2, recipient # NullAddr, "Invalid recipient")
        w4 == Require(w3, recipient # Validator, "Cannot transfer to self")
        w5 == Require(w4, amount > 0, "Zero amount")
        w6 == Require(w5, permitSingle.token # NullAddr, "Invalid token")
        w7 == Permit2Permit(w6, owner, permitSingle, signature)
        w8 == Permit2TransferFrom(w7, Validator, owner, recipient, amount, permitSingle.token)
    IN Emit(w8, TokensTransferred(owner, recipient, permitSingle.token, amount))

\* Faulty variant: the tokens go to the caller, whatever recipient is named.
validatePermitAndTransferToCaller(w, permitSingle, signature, owner, recipient, amount) ==
    LET w1 == Require(w, recipient # NullAddr, "Invalid recipient")
        w2 == Require(w1, recipient # Validator, "Cannot transfer to self")
        w3 == Require(w2, amount > 0, "Zero amount")
        w4 == Require(w3, amount <= permitSingle.amount, "Amount exceeds permitted")
        w5 == Require(w4, permitSingle.token # NullAddr, "Invalid token")
        w6 == Require(w5, permitSingle.spender = Validator, "Invalid spender")
        w7 == Permit2Permit(w6, owner, permitSingle, signature)
        w8 == Permit2TransferFrom(w7, Validator, owner, w.sender, amount, permitSingle.token)
    IN Emit(w8, TokensTransferred(owner, w.sender, permitSingle.token, amount))

validatePermitAndTransfer(w, permitSingle, signature, owner, recipient, amount) ==
    LET w1 == Require(w, recipient # NullAddr, "Invalid recipient")
        w2 == Require(w1, recipient # Validator, "Cannot transfer to self")
        w3 == Require(w2, amount > 0, "Zero amount")
        w4 == Require(w3, amount <= permitSingle.amount, "Amount exceeds permitted")
        w5 == Require(w4, permitSingle.token # NullAddr, "Invalid token")
        w6 == Require(w5, permitSingle.spender = Validator, "Invalid spender")
        w7 == Permit2Permit(w6, owner, permitSingle, signature)
        w8 == Permit2TransferFrom(w7, Validator, owner, recipient, amount, permitSingle.token)
    IN Emit(w8, TokensTransferred(owner, recipient, permitSingle.token, amount))

\* Faulty variant: the whole permitted amount is pulled.
receiveTokensWithPermitFull(w, permitSingle, signature, owner, amount) ==
    LET w1 == Require(w, amount > 0, "Zero amount")
        w2 == Require(w1, amount <= permitSingle.amount, "Amount exceeds permitted")
        w3 == Require(w2, permitSingle.token # NullAddr, "Invalid token")
        w4 == Require(w3, permitSingle.spender = Validator, "Invalid spender")
        w5 == Permit2Permit(w4, owner, permitSingle, signature)
        w6 == Permit2TransferFrom(w5, Validator, owner, Validator, permitSingle.amount, permitSingle.token)
    IN Emit(w6, TokensTransferred(owner, Validator, permitSingle.token, amount))

receiveTokensWithPermit(w, permitSingle, signature, owner, amount) ==
    LET w1 == Require(w, amount > 0, "Zero amount")
        w2 == Require(w1, amount <= permitSingle.amount, "Amount exceeds permitted")
        w3 == Require(w2, permitSingle.token # NullAddr, "Invalid token")
        w4 == Require(w3, permitSingle.spender = Validator, "Invalid spender")
        w5 == Permit2Permit(w4, owner, permitSingle, signature)
        w6 == Permit2TransferFrom(w5, Validator, owner, Validator, amount, permitSingle.token)
    IN Emit(w6, TokensTransferred(owner, Validator, permitSingle.token, amount))

\* _sendViaLayerZero: the SendParam handed to oft.send
SentParam(dstEid, dstAddress, amount, minAmountLD, extraOptions) ==
    [dstEid |-> dstEid, to |-> AddressToBytes32(dstAddress), amountLD |-> amount,
     minAmountLD |-> minAmountLD, extraOptions |-> extraOptions,
     composeMsg |-> <<>>, oftCmd |-> <<>>]

\* Faulty variant: the quote is asked for a send without a minimum amount.
QuotedParamNoMinimum(dstEid, dstAddress, amount, minAmountLD, extraOptions) ==
    [dstEid |-> dstEid, to |-> AddressToBytes32(dstAddress), amountLD |-> amount,
     minAmountLD |-> 0, extraOptions |-> extraOptions,
     composeMsg |-> <<>>, oftCmd |-> <<>>]

\* quoteBridge: the SendParam handed to oft.quoteSend
QuotedParam(dstEid, dstAddress, amount, minAmountLD, extraOptions) ==
    LET toAddress == AddressToBytes32(dstAddress)
    IN [dstEid |-> dstEid, to |-> toAddress, amountLD |-> amount,
        minAmountLD |-> minAmountLD, extraOptions |-> extraOptions,
        composeMsg |-> <<>>, oftCmd |-> <<>>]

\* Faulty variant: the bridge is asked to send the minimum amount.
sendMinimumViaLayerZero(w, oft, dstEid, dstAddress, amount, minAmountLD, extraOptions, refundAddress, nativeFee) ==
    LET sendParam == [dstEid |-> dstEid, to |-> AddressToBytes32(dstAddress),
                      amountLD |-> minAmountLD, minAmountLD |-> minAmountLD,
                      extraOptions |-> extraOptions, composeMsg |-> <<>>, oftCmd |-> <<>>]
        fee == [nativeFee |-> nativeFee, lzTokenFee |-> 0]
    IN OftSend(w, Validator, sendParam, fee, refundAddress, nativeFee)

\* Faulty variant: only the quoted fee is forwarded to the bridge.
sendQuotedFeeViaLayerZero(w, oft, dstEid, dstAddress, amount, minAmountLD, extraOptions, refundAddress, nativeFee) ==
    LET sendParam == SentParam(dstEid, dstAddress, amount, minAmountLD, extraOptions)
        fee == [nativeFee |-> QuoteSend(sendParam).nativeFee, lzTokenFee |-> 0]
    IN OftSend(w, Validator, sendParam, fee, refundAddress, fee.nativeFee)

sendViaLayerZero(w, oft, dstEid, dstAddress, amount, minAmountLD, extraOptions, refundAddress, nativeFee) ==
    LET sendParam == SentParam(dstEid, dstAddress, amount, minAmountLD, extraOptions)
        fee == [nativeFee |-> nativeFee, lzTokenFee |-> 0]
    IN OftSend(w, Validator, sendParam, fee, refundAddress, nativeFee)

\* Faulty variant: the refund of the bridge fee goes to the component.
receiveAndBridgeRefundingSelf(w, permitSingle, signature, owner, amount, dstEid, dstAddress, minAmountLD, extraOptions, msgValue) ==
    LET w1 == Require(w, amount > 0, "Zero amount")
        w2 == Require(w1, dstAddress # NullAddr, "Invalid destination address")
        w3 == Require(w2, amount <= permitSingle.amount, "Amount exceeds permitted")
        w4 == Require(w3, permitSingle.token # NullAddr, "Invalid token")
        w5 == Require(w4, permitSingle.spender = Validator, "Invalid spender")
        w6 == Permit2Permit(w5, owner, permitSingle, signature)
        w7 == Permit2TransferFrom(w6, Validator, owner, Validator, amount, permitSingle.token)
        w8 == Emit(w7, TokensTransferred(owner, Validator, permitSingle.token, amount))
        w9 == Erc20Approve(w8, Validator, permitSingle.token, amount)
        w10 == sendViaLayerZero(w9, permitSingle.token, dstEid, dstAddress, amount,
                                minAmountLD, extraOptions, Validator, msgValue)
    IN Emit(w10, TokensBridged(owner, permitSingle.token, dstEid, dstAddress, amount, w10.guid))

receiveAndBridge(w, permitSingle, signature, owner, amount, dstEid, dstAddress, minAmountLD, extraOptions, msgValue) ==
    LET w1 == Require(w, amount > 0, "Zero amount")
        w2 == Require(w1, dstAddress # NullAddr, "Invalid destination address")
        w3 == Require(w2, amount <= permitSingle.amount, "Amount exceeds permitted")
        w4 == Require(w3, permitSingle.token # NullAddr, "Invalid token")
        w5 == Require(w4, permitSingle.spender = Validator, "Invalid spender")
        w6 == Permit2Permit(w5, owner, permitSingle, signature)
        w7 == Permit2TransferFrom(w6, Validator, owner, Validator, amount, permitSingle.token)
        w8 == Emit(w7, TokensTransferred(owner, Validator, permitSingle.token, amount))
        w9 == Erc20Approve(w8, Validator, permitSingle.token, amount)
        w10 == sendViaLayerZero(w9, permitSingle.token, dstEid, dstAddress, amount,
                                minAmountLD, extraOptions, owner, msgValue)
    IN Emit(w10, TokensBridged(owner, permitSingle.token, dstEid, dstAddress, amount, w10.guid))

\* Faulty variant: the caller who attached the fee is named for the refund.
receiveAndBridgeGaslessRefundingCaller(w, permit, owner, signature, dstEid, dstAddress, minAmountLD, extraOptions, msgValue) ==
    LET w1 == Require(w, permit.amount > 0, "Zero amount")
        w2 == Require(w1, dstAddress # NullAddr, "Invalid destination address")
        w3 == Require(w2, permit.token # NullAddr, "Invalid token")
        amount == permit.amount
        w4 == Permit2PermitTransferFrom(w3, Validator, permit,
                  [to |-> Validator, requestedAmount |-> amount], owner, signature)
        w5 == Emit(w4, TokensTransferred(owner, Validator, permit.token, amount % (MaxUint160 + 1)))
        w6 == Erc20Approve(w5, Validator, permit.token, amount)
        w7 == sendViaLayerZero(w6, permit.token, dstEid, dstAddress, amount,
                               minAmountLD, extraOptions, w.sender, msgValue)
    IN Emit(w7, TokensBridged(owner, permit.token, dstEid, dstAddress, amount, w7.guid))

\* SignatureTransfer permit, flattened: permitted.token, permitted.amount, nonce, deadline.
receiveAndBridgeGasless(w, permit, owner, signature, dstEid, dstAddress, minAmountLD, extraOptions, msgValue) ==
    LET w1 == Require(w, permit.amount > 0, "Zero amount")
        w2 == Require(w1, dstAddress # NullAddr, "Invalid destination address")
        w3 == Require(w2, permit.token # NullAddr, "Invalid token")
        amount == permit.amount
        w4 == Permit2PermitTransferFrom(w3, Validator, permit,
                  [to |-> Validator, requestedAmount |-> amount], owner, signature)
        w5 == Emit(w4, TokensTransferred(owner, Validator, permit.token, amount % (MaxUint160 + 1)))
        w6 == Erc20Approve(w5, Validator, permit.token, amount)
        w7 == sendViaLayerZero(w6, permit.token, dstEid, dstAddress, amount,
                               minAmountLD, extraOptions, owner, msgValue)
    IN Emit(w7, TokensBridged(owner, permit.token, dstEid, dstAddress, amount, w7.guid))

\* Faulty variant: the quote returns the fee's lzToken component.
quoteLzTokenFee(token, dstEid, dstAddress, amount, minAmountLD, extraOptions) ==
    LET toAddress == AddressToBytes32(dstAddress)
        sendParam == [dstEid |-> dstEid, to |-> toAddress, amountLD |-> amount,
                      minAmountLD |-> minAmountLD, extraOptions |-> extraOptions,
                      composeMsg |-> <<>>, oftCmd |-> <<>>]
    IN QuoteSend(sendParam).lzTokenFee

\* view: returns the native fee the OFT quotes for the would-be send
quoteBridge(token, dstEid, dstAddress, amount, minAmountLD, extraOptions) ==
    LET sendParam == QuotedParam(dstEid, dstAddress, amount, minAmountLD, extraOptions)
    IN QuoteSend(sendParam).nativeFee

\* Faulty variant: withdrawTokens without its access check.
withdrawTokensOpen(w, msgSender, token, to, amount) ==
    LET w2 == IF w.ok THEN Call(w, [fn |-> "balanceOf", from |-> Validator, to |-> Validator,
                                    amt |-> 0])
              ELSE w
        w3 == Require(w2, w2.bal[Validator] >= amount, "Insufficient balance")
    IN Erc20Approve(w3, Validator, to, amount)

\* Faulty variant: withdrawTokens without its balance check.
withdrawTokensUnchecked(w, msgSender, token, to, amount) ==
    LET w1 == Require(w, msgSender = Validator \/ to = msgSender, "Not authorized")
    IN Erc20Approve(w1, Validator, to, amount)

withdrawTokens(w, msgSender, token, to, amount) ==
    LET w1 == Require(w, msgSender = Validator \/ to = msgSender, "Not authorized")
        w2 == IF w1.ok THEN Call(w1, [fn |-> "balanceOf", from |-> Validator, to |-> Validator,
                                      amt |-> 0])
              ELSE w1
        w3 == Require(w2, w2.bal[Validator] >= amount, "Insufficient balance")
    IN Erc20Approve(w3, Validator, to, amount)

(* ------------------------------ inputs --------------------------------- *)
\* How many arguments of one call may depart at once from the usual call of
\* the test scripts (token = the OFT, spender = the validator, the owner's
\* own signature, far deadlines, a real recipient, the quoted fee attached).
MaxFaults == 1

Amounts == 0 .. MaxUint160
PermitAmounts == 1 .. MaxUint160
Times == 1 .. MaxTime
Nonces == 0 .. (MaxNonce - 1)
Signers == {Alice, Bob}
Recipients == {NullAddr, Validator, Bob}
Options == {<<>>, <<1>>}
Values == 0 .. InitialNative
Relayer == Bob

F(usual) == IF usual THEN 0 ELSE 1

AllowancePermits ==
    [token : {Token, NullAddr}, amount : PermitAmounts, expiration : Times,
     nonce : Nonces, spender : {Validator, Bob}, sigDeadline : Times]

TransferPermits ==
    [token : {Token, NullAddr}, amount : Amounts, nonce : Nonces, deadline : Times]

TransferSignatures == [signer : Signers, spender : {Validator, Bob}]

PermitFaults(p) ==
    F(p.token = Token) + F(p.spender = Validator) + F(p.expiration = MaxTime)
        + F(p.sigDeadline = MaxTime)

BridgeFields ==
    [dstEid : {SupportedEid, UnsupportedEid}, dstAddress : {NullAddr, Bob},
     minAmountLD : {0, MaxUint160}, extraOptions : Options, value : Values]

BridgeFaults(b) ==
    F(b.dstEid = SupportedEid) + F(b.dstAddress = Bob) + F(b.minAmountLD = 0)
        + F(b.value = quoteBridge(Token, b.dstEid, b.dstAddress, 0, b.minAmountLD,
                                  b.extraOptions))

\* A call is drawn with every amount when its other arguments are the usual
\* ones, and with the plain amounts (one unit against a bound of
\* MaxUint160 - 1) when up to MaxFaults of them are not.
Drawn(faults, plain) == faults = 0 \/ (faults <= MaxFaults /\ plain)

PlainBound == MaxUint160 - 1

\* The drawn calls, listed once.
Listed(S) == {a : a \in S}

ValidatePermitArgs ==
    Listed({a \in [permitSingle : AllowancePermits, signature : Signers] :
        /\ a.permitSingle.token = Token
        /\ Drawn(PermitFaults(a.permitSingle) + F(a.signature = Alice),
                 a.permitSingle.amount = PlainBound)})

ValidatePermitAndTransferArgs ==
    Listed({a \in [permitSingle : AllowancePermits, signature : Signers, recipient : Recipients,
            amount : Amounts] :
        Drawn(PermitFaults(a.permitSingle) + F(a.signature = Alice) + F(a.recipient = Bob),
              a.permitSingle.amount = PlainBound /\ a.amount = 1)})

ReceiveTokensWithPermitArgs ==
    Listed({a \in [permitSingle : AllowancePermits, signature : Signers, amount : Amounts] :
        Drawn(PermitFaults(a.permitSingle) + F(a.signature = Alice),
              a.permitSingle.amount = PlainBound /\ a.amount = 1)})

ReceiveAndBridgeArgs ==
    Listed({a \in [permitSingle : AllowancePermits, signature : Signers, amount : Amounts,
            bridge : BridgeFields] :
        Drawn(PermitFaults(a.permitSingle) + F(a.signature = Alice) + BridgeFaults(a.bridge),
              a.permitSingle.amount = PlainBound /\ a.amount = 1)})

ReceiveAndBridgeGaslessArgs ==
    Listed({a \in [permit : TransferPermits, signature : TransferSignatures, bridge : BridgeFields] :
        Drawn(F(a.permit.token = Token) + F(a.permit.deadline = MaxTime)
                  + F(a.signature.signer = Alice) + F(a.signature.spender = Validator)
                  + BridgeFaults(a.bridge),
              a.permit.amount = 1)})

WithdrawTokensArgs == [caller : Callers, to : {NullAddr, Bob}, amount : {1, MaxUint160}]

(* ---------------------- one transaction per entry point ---------------- *)
\* The owner of every permit is Alice; the relayer submits the transaction.
ValidatePermitTx(a) ==
    Transaction(validatePermit(Begin(Relayer, 0), a.permitSingle, a.signature, Alice))

ValidatePermitAndTransferTx(a) ==
    Transaction(validatePermitAndTransfer(Begin(Relayer, 0), a.permitSingle, a.signature,
                                          Alice, a.recipient, a.amount))

ReceiveTokensWithPermitTx(a) ==
    Transaction(receiveTokensWithPermit(Begin(Relayer, 0), a.permitSingle, a.signature,
                                        Alice, a.amount))

ReceiveAndBridgeTx(a) ==
    Transaction(receiveAndBridge(Begin(Relayer, a.bridge.value), a.permitSingle, a.signature,
                                 Alice, a.amount, a.bridge.dstEid, a.bridge.dstAddress,
                                 a.bridge.minAmountLD, a.bridge.extraOptions, a.bridge.value))

ReceiveAndBridgeGaslessTx(a) ==
    Transaction(receiveAndBridgeGasless(Begin(Relayer, a.bridge.value), a.permit, Alice,
                                        a.signature, a.bridge.dstEid, a.bridge.dstAddress,
                                        a.bridge.minAmountLD, a.bridge.extraOptions,
                                        a.bridge.value))

WithdrawTokensTx(a) ==
    Transaction(withdrawTokens(Begin(a.caller, 0), a.caller, Token, a.to, a.amount))

\* The registry slot a signed permit spends: the (owner, token, spender)
\* sequence number of an AllowanceTransfer permit, the owner's bitmap bit
\* of a SignatureTransfer permit.  Identical permits name the same slot.
AllowanceId(p) ==
    [style |-> "allowance", token |-> p.token, spender |-> p.spender, nonce |-> p.nonce]
TransferId(p) ==
    [style |-> "transfer", token |-> NullAddr, spender |-> NullAddr, nonce |-> p.nonce]
NoPermit ==
    [style |-> "none", token |-> NullAddr, spender |-> NullAddr, nonce |-> 0]

\* The ledger takes the final world of the transaction; a transaction that
\* reverted is not recorded as the last operation.
Commit(op, w, permitId) ==
    /\ balances' = w.bal
    /\ tokenAllowance' = w.tokAllow
    /\ allowance' = w.p2
    /\ nonceBitmap' = w.bitmap
    /\ nativeBalance' = w.native
    /\ outboundNonce' = w.out
    /\ used' = IF w.ok /\ permitId.style # "none" THEN used \cup {permitId} ELSE used
    /\ last' = IF w.ok THEN op ELSE last
    /\ UNCHANGED now

(* ------------------------------ actions -------------------------------- *)
ValidatePermit ==
    \E a \in ValidatePermitArgs :
        Commit("validatePermit", ValidatePermitTx(a), AllowanceId(a.permitSingle))

ValidatePermitAndTransfer ==
    \E a \in ValidatePermitAndTransferArgs :
        Commit("validatePermitAndTransfer", ValidatePermitAndTransferTx(a),
               AllowanceId(a.permitSingle))

ReceiveTokensWithPermit ==
    \E a \in ReceiveTokensWithPermitArgs :
        Commit("receiveTokensWithPermit", ReceiveTokensWithPermitTx(a),
               AllowanceId(a.permitSingle))

ReceiveAndBridge ==
    \E a \in ReceiveAndBridgeArgs :
        /\ a.bridge.value <= nativeBalance[Relayer]
        /\ Commit("receiveAndBridge", ReceiveAndBridgeTx(a), AllowanceId(a.permitSingle))

ReceiveAndBridgeGasless ==
    \E a \in ReceiveAndBridgeGaslessArgs :
        /\ a.bridge.value <= nativeBalance[Relayer]
        /\ Commit("receiveAndBridgeGasless", ReceiveAndBridgeGaslessTx(a),
                  TransferId(a.permit))

WithdrawTokens ==
    \E a \in WithdrawTokensArgs :
        Commit("withdrawTokens", WithdrawTokensTx(a), NoPermit)

\* scripts/approve-permit2-all-chains.ts: the owner approves Permit2 on the token.
ApprovePermit2 ==
    Commit("approvePermit2",
           Transaction(Erc20Approve(Begin(Alice, 0), Alice, PERMIT2, MaxUint160)),
           NoPermit)

\* The party withdrawTokens approved pulls from the validator at the token.
TokenTransferFrom ==
    /\ tokenAllowance[<<Validator, Bob>>] > 0
    /\ Commit("tokenTransferFrom",
              Transaction(Erc20TransferFrom(Begin(Bob, 0), Bob, Validator, Bob,
                                            tokenAllowance[<<Validator, Bob>>])),
              NoPermit)

\* A later block.
Tick ==
    /\ now < MaxTime
    /\ now' = now + 1
    /\ last' = "tick"
    /\ UNCHANGED <<balances, tokenAllowance, allowance, nonceBitmap, nativeBalance,
                   outboundNonce, used>>

Init ==
    /\ balances = [h \in Holders |-> IF h = Alice THEN InitialBalance ELSE 0]
    /\ tokenAllowance = [k \in Holders \X ApprovedParties |-> 0]
    /\ allowance = [k \in {Token, NullAddr} \X {Validator, Bob} |->
                       [amount |-> 0, expiration |-> 0, nonce |-> 0]]
    /\ nonceBitmap = {}
    /\ nativeBalance = [h \in NativeHolders |-> IF h = Relayer THEN InitialNative ELSE 0]
    /\ outboundNonce = 0
    /\ now = 1
    /\ used = {}
    /\ last = "none"

Next ==
    \/ ValidatePermit
    \/ ValidatePermitAndTransfer
    \/ ReceiveTokensWithPermit
    \/ ReceiveAndBridge
    \/ ReceiveAndBridgeGasless
    \/ WithdrawTokens
    \/ ApprovePermit2
    \/ TokenTransferFrom
    \/ Tick

Spec == Init /\ [][Next]_vars

(* ------------------------- any caller ---------------------------------- *)
\* The five permit operations submitted by a caller of choice, who pays the
\* attached value.
ValidatePermitTxBy(c, a) ==
    Transaction(validatePermit(Begin(c, 0), a.permitSingle, a.signature, Alice))

ValidatePermitAndTransferTxBy(c, a) ==
    Transaction(validatePermitAndTransfer(Begin(c, 0), a.permitSingle, a.signature, Alice, a.recipient, a.amount))

ReceiveTokensWithPermitTxBy(c, a) ==
    Transaction(receiveTokensWithPermit(Begin(c, 0), a.permitSingle, a.signature, Alice, a.amount))

ReceiveAndBridgeTxBy(c, a) ==
    Transaction(receiveAndBridge(Begin(c, a.bridge.value), a.permitSingle, a.signature, Alice, a.amount, a.bridge.dstEid, a.bridge.dstAddress, a.bridge.minAmountLD, a.bridge.extraOptions, a.bridge.value))

ReceiveAndBridgeGaslessTxBy(c, a) ==
    Transaction(receiveAndBridgeGasless(Begin(c, a.bridge.value), a.permit, Alice, a.signature, a.bridge.dstEid, a.bridge.dstAddress, a.bridge.minAmountLD, a.bridge.extraOptions, a.bridge.value))

\* The owner too holds native currency, so that either party can pay a fee.
InitFunded ==
    /\ balances = [h \in Holders |-> IF h = Alice THEN InitialBalance ELSE 0]
    /\ tokenAllowance = [k \in Holders \X ApprovedParties |-> 0]
    /\ allowance = [k \in {Token, NullAddr} \X {Validator, Bob} |->
                       [amount |-> 0, expiration |-> 0, nonce |-> 0]]
    /\ nonceBitmap = {}
    /\ nativeBalance = [h \in NativeHolders |->
                           IF h = Relayer THEN InitialNative
                           ELSE IF h = Alice THEN InitialNative - 1 ELSE 0]
    /\ outboundNonce = 0
    /\ now = 1
    /\ used = {}
    /\ last = "none"

SpecFunded == InitFunded /\ [][Next]_vars

(* ------------------- amounts wider than 160 bits ----------------------- *)
\* The amount of a SignatureTransfer permit, a token balance and a token
\* approval are uint256; the amounts of AllowanceTransfer and the amount
\* field of TokensTransferred are uint160.  MaxUint256 + 1 is a multiple of
\* MaxUint160 + 1, as 2^256 is of 2^160.
MaxUint256 == 2 * (MaxUint160 + 1) - 1
WideAmounts == {1, MaxUint160, MaxUint160 + 1, MaxUint160 + 2}
WideBalance == MaxUint160 + 2

\* Gasless calls with a valid signature and the usual bridge fields, the
\* permit's amount ranging over both sides of the 160-bit limit.
WideGaslessArgs ==
    Listed({a \in [permit : [token : {Token}, amount : WideAmounts, nonce : Nonces,
                             deadline : {MaxTime}],
                   signature : {[signer |-> Alice, spender |-> Validator]},
                   bridge : BridgeFields] :
        BridgeFaults(a.bridge) = 0})

ReceiveAndBridgeGaslessWide ==
    \E a \in WideGaslessArgs :
        /\ a.bridge.value <= nativeBalance[Relayer]
        /\ Commit("receiveAndBridgeGasless", ReceiveAndBridgeGaslessTx(a),
                  TransferId(a.permit))

\* The owner approves Permit2 on the token with the largest uint256.
ApprovePermit2Wide ==
    Commit("approvePermit2",
           Transaction(Erc20Approve(Begin(Alice, 0), Alice, PERMIT2, MaxUint256)),
           NoPermit)

\* The owner holds more than 2^160 units of the token.
InitWide ==
    /\ balances = [h \in Holders |-> IF h = Alice THEN WideBalance ELSE 0]
    /\ tokenAllowance = [k \in Holders \X ApprovedParties |-> 0]
    /\ allowance = [k \in {Token, NullAddr} \X {Validator, Bob} |->
                       [amount |-> 0, expiration |-> 0, nonce |-> 0]]
    /\ nonceBitmap = {}
    /\ nativeBalance = [h \in NativeHolders |-> IF h = Relayer THEN InitialNative ELSE 0]
    /\ outboundNonce = 0
    /\ now = 1
    /\ used = {}
    /\ last = "none"

NextWide ==
    \/ ApprovePermit2Wide
    \/ ReceiveAndBridgeGaslessWide
    \/ ValidatePermitAndTransfer
    \/ ReceiveTokensWithPermit
    \/ ReceiveAndBridge
    \/ Tick

SpecWide == InitWide /\ [][NextWide]_vars

(* ============================== claims ================================= *)
Ledger(w) == <<w.bal, w.tokAllow, w.p2, w.bitmap, w.native, w.out>>

UsualBridge(b) ==
    /\ b.dstEid = SupportedEid
    /\ b.dstAddress # NullAddr
    /\ b.minAmountLD = 0
    /\ b.value = quoteBridge(Token, b.dstEid, b.dstAddress, 0, b.minAmountLD, b.extraOptions)
    /\ b.value <= nativeBalance[Relayer]

\* A transaction that presents an already consumed permit: it fails, and if
\* it got past the local checks it failed in its first registry call.
RejectedAtRegistry(w) ==
    /\ ~w.ok
    /\ w.events = <<>>
    /\ w.bal = balances
    /\ w.calls # <<>> =>
          /\ Len(w.calls) = 1
          /\ w.calls[1].fn \in {"permit", "permitTransferFrom"}
          /\ w.err = "InvalidNonce" \/ w.err = "SignatureExpired" \/ w.err = "InvalidSigner"

\* C1: once a call presenting a signed permit has succeeded, every later call
\* that presents that permit, through whichever entry point and in whatever
\* order the calls are sequenced, fails at the registry, emits no event and
\* changes no balance; so at most one call per permit succeeds.
C1_PermitSucceedsAtMostOnce ==
    /\ \A a \in ValidatePermitArgs :
          AllowanceId(a.permitSingle) \in used => RejectedAtRegistry(ValidatePermitTx(a))
    /\ \A a \in ValidatePermitAndTransferArgs :
          AllowanceId(a.permitSingle) \in used
              => RejectedAtRegistry(ValidatePermitAndTransferTx(a))
    /\ \A a \in ReceiveTokensWithPermitArgs :
          AllowanceId(a.permitSingle) \in used
              => RejectedAtRegistry(ReceiveTokensWithPermitTx(a))
    /\ \A a \in ReceiveAndBridgeArgs :
          AllowanceId(a.permitSingle) \in used => RejectedAtRegistry(ReceiveAndBridgeTx(a))
    /\ \A a \in ReceiveAndBridgeGaslessArgs :
          TransferId(a.permit) \in used => RejectedAtRegistry(ReceiveAndBridgeGaslessTx(a))

\* Both permit styles have been consumed, and an otherwise usual call that
\* presents a consumed permit again is refused by the registry for its nonce.
C1_Witness ==
    /\ \E u \in used : u.style = "allowance"
    /\ \E u \in used : u.style = "transfer"
    /\ \E a \in ValidatePermitAndTransferArgs :
          /\ AllowanceId(a.permitSingle) \in used
          /\ ValidatePermitAndTransferTx(a).err = "InvalidNonce"
    /\ \E a \in ReceiveAndBridgeGaslessArgs :
          /\ TransferId(a.permit) \in used
          /\ ReceiveAndBridgeGaslessTx(a).err = "InvalidNonce"

Aborted(w) == ~w.ok => Ledger(w) = chain /\ w.events = <<>>

Taken(w) == balances[Alice] - w.bal[Alice]

\* C3: in every successful operation that moves tokens from the owner, the
\* units taken from the owner do not exceed the amount bound of the permit
\* presented in that call.
C3_TakenWithinPermitBound ==
    /\ \A a \in ValidatePermitAndTransferArgs :
          LET w == ValidatePermitAndTransferTx(a) IN w.ok => Taken(w) <= a.permitSingle.amount
    /\ \A a \in ReceiveTokensWithPermitArgs :
          LET w == ReceiveTokensWithPermitTx(a) IN w.ok => Taken(w) <= a.permitSingle.amount
    /\ \A a \in ReceiveAndBridgeArgs :
          LET w == ReceiveAndBridgeTx(a)
          IN a.bridge.value <= nativeBalance[Relayer] /\ w.ok
                => Taken(w) <= a.permitSingle.amount
    /\ \A a \in ReceiveAndBridgeGaslessArgs :
          LET w == ReceiveAndBridgeGaslessTx(a)
          IN a.bridge.value <= nativeBalance[Relayer] /\ w.ok => Taken(w) <= a.permit.amount

\* A transfer that takes the whole bound succeeds while the owner holds more.
C3_Witness ==
    \E a \in ValidatePermitAndTransferArgs :
        LET w == ValidatePermitAndTransferTx(a)
        IN w.ok /\ Taken(w) = a.permitSingle.amount /\ w.bal[Alice] > 0

\* C4: a requested amount above the permit's bound makes
\* validatePermitAndTransfer, receiveTokensWithPermit and receiveAndBridge
\* fail before any external call is made.
C4_OverBoundFailsBeforeAnyCall ==
    /\ \A a \in ValidatePermitAndTransferArgs :
          LET w == ValidatePermitAndTransferTx(a)
          IN a.amount > a.permitSingle.amount => ~w.ok /\ w.calls = <<>>
    /\ \A a \in ReceiveTokensWithPermitArgs :
          LET w == ReceiveTokensWithPermitTx(a)
          IN a.amount > a.permitSingle.amount => ~w.ok /\ w.calls = <<>>
    /\ \A a \in ReceiveAndBridgeArgs :
          LET w == ReceiveAndBridgeTx(a)
          IN a.amount > a.permitSingle.amount => ~w.ok /\ w.calls = <<>>

\* After the owner approved the registry and a permit was consumed, a request
\* with a fresh permit, which the owner's balance and approval would cover,
\* is refused for exceeding the permit's bound.
C4_Witness ==
    /\ used # {}
    /\ \E a \in ValidatePermitAndTransferArgs :
          /\ a.amount > a.permitSingle.amount
          /\ a.amount <= balances[Alice]
          /\ a.amount <= tokenAllowance[<<Alice, PERMIT2>>]
          /\ a.permitSingle.nonce = allowance[<<Token, Validator>>].nonce
          /\ ValidatePermitAndTransferTx(a).err = "Amount exceeds permitted"

RejectedLocally(w) == ~w.ok /\ w.calls = <<>>

\* C5, as stated: in every operation that takes an AllowancePermit,
\* validatePermit included, a permit whose spender is not the component is
\* rejected before any external call.
C5_Original ==
    /\ \A a \in ValidatePermitArgs :
          a.permitSingle.spender # Validator => RejectedLocally(ValidatePermitTx(a))
    /\ \A a \in ValidatePermitAndTransferArgs :
          a.permitSingle.spender # Validator => RejectedLocally(ValidatePermitAndTransferTx(a))
    /\ \A a \in ReceiveTokensWithPermitArgs :
          a.permitSingle.spender # Validator => RejectedLocally(ReceiveTokensWithPermitTx(a))
    /\ \A a \in ReceiveAndBridgeArgs :
          a.permitSingle.spender # Validator => RejectedLocally(ReceiveAndBridgeTx(a))

\* C5, amended: validatePermitAndTransfer, receiveTokensWithPermit and
\* receiveAndBridge reject a permit whose spender is not the component before
\* any external call; validatePermit checks nothing locally and hands every
\* permit, whatever its spender, to the registry, which records the allowance
\* for that spender when the signature, deadline and nonce are good.
C5_SpenderCheckedExceptInValidatePermit ==
    /\ \A a \in ValidatePermitAndTransferArgs :
          a.permitSingle.spender # Validator => RejectedLocally(ValidatePermitAndTransferTx(a))
    /\ \A a \in ReceiveTokensWithPermitArgs :
          a.permitSingle.spender # Validator => RejectedLocally(ReceiveTokensWithPermitTx(a))
    /\ \A a \in ReceiveAndBridgeArgs :
          a.permitSingle.spender # Validator => RejectedLocally(ReceiveAndBridgeTx(a))
    /\ \A a \in ValidatePermitArgs :
          LET w == ValidatePermitTx(a)
              p == a.permitSingle
          IN /\ Len(w.calls) = 1
             /\ w.calls[1].fn = "permit"
             /\ w.calls[1].to = p.spender
             /\ (/\ a.signature = Alice
                 /\ now <= p.sigDeadline
                 /\ p.nonce = allowance[<<p.token, p.spender>>].nonce)
                   => w.ok /\ w.p2[<<p.token, p.spender>>].amount = p.amount

\* validatePermit has recorded an allowance for a spender other than the
\* component, and the same spender is refused by validatePermitAndTransfer.
C5_Witness ==
    /\ last = "validatePermit"
    /\ allowance[<<Token, Bob>>].amount > 0
    /\ \E a \in ValidatePermitAndTransferArgs :
          /\ a.permitSingle.spender = Bob
          /\ ValidatePermitAndTransferTx(a).err = "Invalid spender"

NothingLeftStanding(w) == w.ok => w.p2[<<Token, Validator>>].amount = 0

\* C6: after every successful validatePermitAndTransfer,
\* receiveTokensWithPermit or receiveAndBridge with 0 < amount <= bound, the
\* registry's remaining allowance for (owner, token, component) is zero.
C6_AllowanceFullyConsumed ==
    /\ \A a \in ValidatePermitAndTransferArgs :
          NothingLeftStanding(ValidatePermitAndTransferTx(a))
    /\ \A a \in ReceiveTokensWithPermitArgs :
          NothingLeftStanding(ReceiveTokensWithPermitTx(a))
    /\ \A a \in ReceiveAndBridgeArgs :
          a.bridge.value <= nativeBalance[Relayer]
              => NothingLeftStanding(ReceiveAndBridgeTx(a))

C7_Stated(a) ==
    /\ a.signature = Alice
    /\ a.permitSingle.spender = Validator
    /\ a.amount <= a.permitSingle.amount
    /\ a.recipient \notin {NullAddr, Validator}
    /\ AllowanceId(a.permitSingle) \notin used

C7_Moved(a, w) ==
    /\ w.ok
    /\ w.bal[Alice] = balances[Alice] - a.amount
    /\ w.bal[a.recipient] = balances[a.recipient] + a.amount
    /\ w.events = <<TokensTransferred(Alice, a.recipient, a.permitSingle.token, a.amount)>>

\* C7, as stated: for every permit validly signed by the owner whose spender
\* is the component, every amount not above the bound and every recipient
\* that is neither null nor the component, the first validatePermitAndTransfer
\* with that permit succeeds, moves exactly the amount and emits
\* TokensTransferred with it.
C7_Original ==
    \A a \in ValidatePermitAndTransferArgs :
        C7_Stated(a) => C7_Moved(a, ValidatePermitAndTransferTx(a))

C7_Needed(a) ==
    /\ a.amount > 0
    /\ a.permitSingle.token # NullAddr
    /\ a.permitSingle.nonce = allowance[<<a.permitSingle.token, Validator>>].nonce
    /\ now <= a.permitSingle.sigDeadline
    /\ now <= a.permitSingle.expiration
    /\ balances[Alice] >= a.amount
    /\ tokenAllowance[<<Alice, PERMIT2>>] >= a.amount

\* C7, amended: the call succeeds, moves exactly the amount from owner to
\* recipient and emits one TokensTransferred with it when, besides what the
\* claim states, the amount is positive, the token is not null, the permit's
\* nonce is the registry's current one, neither the signature deadline nor
\* the expiration has passed, the owner holds the amount and the owner has
\* approved the registry on the token for at least the amount.
C7_TransferSucceedsWhenFunded ==
    \A a \in ValidatePermitAndTransferArgs :
        C7_Stated(a) /\ C7_Needed(a) => C7_Moved(a, ValidatePermitAndTransferTx(a))

\* A transfer has gone through, and a further permit for less than its bound
\* meets every condition.
C7_Witness ==
    /\ last = "validatePermitAndTransfer"
    /\ balances[Bob] > 0
    /\ \E a \in ValidatePermitAndTransferArgs :
          C7_Stated(a) /\ C7_Needed(a) /\ a.amount < a.permitSingle.amount

PassedThrough(w, requested) ==
    w.ok => /\ Taken(w) = requested
            /\ w.sent = requested
            /\ w.bal[Validator] = balances[Validator] + Taken(w) - w.sent
            /\ w.bal[Validator] = balances[Validator]

\* C8: after every successful receiveAndBridge or receiveAndBridgeGasless the
\* component's balance of the token is its balance before the call plus the
\* amount received from the owner minus the amount the bridge took, which is
\* the same amount, so the component retains nothing; in every reachable
\* state, whatever it already holds.
C8_BridgeRetainsNothing ==
    /\ \A a \in ReceiveAndBridgeArgs :
          a.bridge.value <= nativeBalance[Relayer]
              => PassedThrough(ReceiveAndBridgeTx(a), a.amount)
    /\ \A a \in ReceiveAndBridgeGaslessArgs :
          a.bridge.value <= nativeBalance[Relayer]
              => PassedThrough(ReceiveAndBridgeGaslessTx(a), a.permit.amount)

\* The component holds tokens staged earlier and a bridge operation has just
\* gone through, leaving them where they were.
C8_Witness ==
    /\ last \in {"receiveAndBridge", "receiveAndBridgeGasless"}
    /\ balances[Validator] > 0
    /\ outboundNonce > 0

\* C9: the component's token balance changes only through the registry's
\* transfers into it or the bridge's send out of it; no other step, by any
\* party, changes it.
C9_OnlyRegistryAndBridgeMoveHeldTokens ==
    [][balances'[Validator] # balances[Validator]
          => last' \in {"receiveTokensWithPermit", "receiveAndBridge",
                        "receiveAndBridgeGasless"}]_vars

GaslessValid(a) ==
    /\ a.permit.token = Token
    /\ a.permit.amount > 0
    /\ now <= a.permit.deadline
    /\ a.permit.nonce \notin nonceBitmap
    /\ a.signature = [signer |-> Alice, spender |-> Validator]
    /\ UsualBridge(a.bridge)
    /\ balances[Alice] >= a.permit.amount

\* C10: receiveAndBridgeGasless succeeds for an owner who signed a valid
\* one-shot permit, whether or not the owner ever approved the registry on
\* the token.
C10_SignatureAloneSuffices ==
    \A a \in ReceiveAndBridgeGaslessArgs :
        GaslessValid(a) => ReceiveAndBridgeGaslessTx(a).ok

\* C11: a successful validatePermit moves no funds: every token balance is
\* the same after the call as before, and the only state that changes is the
\* allowance and nonce the registry records for (owner, token, spender).
C11_ValidatePermitMovesNoFunds ==
    \A a \in ValidatePermitArgs :
        LET w == ValidatePermitTx(a)
            p == a.permitSingle
            key == <<p.token, p.spender>>
        IN w.ok =>
              /\ w.bal = balances
              /\ w.tokAllow = tokenAllowance
              /\ w.native = nativeBalance
              /\ w.bitmap = nonceBitmap
              /\ w.out = outboundNonce
              /\ \A k \in DOMAIN allowance : k # key => w.p2[k] = allowance[k]
              /\ w.p2[key] = [amount |-> p.amount, expiration |-> p.expiration,
                              nonce |-> allowance[key].nonce + 1]

\* validatePermit has just recorded an allowance for the component while the
\* owner holds tokens and has approved the registry, so funds could have moved.
C11_Witness ==
    /\ last = "validatePermit"
    /\ allowance[<<Token, Validator>>].amount > 0
    /\ tokenAllowance[<<Alice, PERMIT2>>] > 0
    /\ balances[Alice] = InitialBalance

EventNames(w) == [i \in 1 .. Len(w.events) |-> w.events[i].name]

BridgeEvents(w) ==
    w.ok => /\ EventNames(w) = <<"TokensTransferred", "TokensBridged">>
            /\ w.events[2].messageId = w.guid
            /\ w.guid # 0

\* C12: every successful operation emits exactly the events of its kind, in
\* order: validatePermit one PermitValidated(owner, token, spender, permit
\* amount); validatePermitAndTransfer and receiveTokensWithPermit one
\* TokensTransferred; receiveAndBridge and receiveAndBridgeGasless one
\* TokensTransferred followed by one TokensBridged carrying the message
\* identifier the bridge send returned, which is not zero.
C12_EventsOfEachOperation ==
    /\ \A a \in ValidatePermitArgs :
          LET w == ValidatePermitTx(a)
              p == a.permitSingle
          IN w.ok => w.events = <<PermitValidated(Alice, p.token, p.spender, p.amount)>>
    /\ \A a \in ValidatePermitAndTransferArgs :
          LET w == ValidatePermitAndTransferTx(a)
          IN w.ok => EventNames(w) = <<"TokensTransferred">>
    /\ \A a \in ReceiveTokensWithPermitArgs :
          LET w == ReceiveTokensWithPermitTx(a)
          IN w.ok => EventNames(w) = <<"TokensTransferred">>
    /\ \A a \in ReceiveAndBridgeArgs :
          a.bridge.value <= nativeBalance[Relayer] => BridgeEvents(ReceiveAndBridgeTx(a))
    /\ \A a \in ReceiveAndBridgeGaslessArgs :
          a.bridge.value <= nativeBalance[Relayer]
              => BridgeEvents(ReceiveAndBridgeGaslessTx(a))

\* One bridge flow has gone through and the other can go through next, with
\* the bridge's next message identifier.
C12_Witness ==
    /\ last = "receiveAndBridge"
    /\ \E a \in ReceiveAndBridgeGaslessArgs :
          LET w == ReceiveAndBridgeGaslessTx(a)
          IN /\ a.bridge.value <= nativeBalance[Relayer]
             /\ w.ok
             /\ w.events[2].messageId = outboundNonce + 1

FeeErrors == {"NotEnoughNative", "InsufficientFee"}

\* The quote for the bridge arguments b and an amount.
Quoted(b, amount) ==
    quoteBridge(Token, b.dstEid, b.dstAddress, amount, b.minAmountLD, b.extraOptions)

\* with: the call with the quoted fee attached; short: the same call with
\* one unit less.
FeeDecides(with, short) ==
    /\ with.err \notin FeeErrors
    /\ ~short.ok
    /\ with.ok => /\ short.err = "InsufficientFee"
                  /\ Ledger(short) = chain
                  /\ short.events = <<>>

\* C13: when quoteBridge is called with the token, endpoint, destination,
\* amount, minimum amount and options of a later receiveAndBridge or
\* receiveAndBridgeGasless in the same bridge state, attaching exactly the
\* returned fee never makes the send fail for its fee, and attaching one unit
\* less makes the bridge reject the send and the whole operation abort.
C13_QuotedFeeIsExact ==
    /\ \A a \in ReceiveAndBridgeArgs :
          (a.bridge.value = Quoted(a.bridge, a.amount) /\ a.bridge.value <= nativeBalance[Relayer])
              => FeeDecides(ReceiveAndBridgeTx(a),
                            ReceiveAndBridgeTx([a EXCEPT !.bridge.value = @ - 1]))
    /\ \A a \in ReceiveAndBridgeGaslessArgs :
          (a.bridge.value = Quoted(a.bridge, a.permit.amount) /\ a.bridge.value <= nativeBalance[Relayer])
              => FeeDecides(ReceiveAndBridgeGaslessTx(a),
                            ReceiveAndBridgeGaslessTx([a EXCEPT !.bridge.value = @ - 1]))

\* A bridge call with the quoted fee attached succeeds where the same call
\* with one unit less is refused for its fee.
C13_Witness ==
    \E a \in ReceiveAndBridgeArgs :
        /\ a.bridge.value = Quoted(a.bridge, a.amount)
        /\ a.bridge.value <= nativeBalance[Relayer]
        /\ ReceiveAndBridgeTx(a).ok
        /\ ReceiveAndBridgeTx([a EXCEPT !.bridge.value = @ - 1]).err = "InsufficientFee"

CallNames(w) == [i \in 1 .. Len(w.calls) |-> w.calls[i].fn]

IsPrefix(s, t) == Len(s) <= Len(t) /\ \A i \in 1 .. Len(s) : s[i] = t[i]

\* The calls of one operation follow the order given: all of them when it
\* succeeds, and up to the call that failed when it does not.
InOrder(w, order) ==
    /\ IsPrefix(CallNames(w), order)
    /\ w.ok => CallNames(w) = order

\* C14: in both bridge flows the external calls of one operation happen in a
\* fixed order: the registry calls that pull the funds return before the
\* approve call on the token, and the approve call before the bridge send;
\* no operation makes the send before the approve or the approve before the
\* completed pull.
C14_PullThenApproveThenSend ==
    /\ \A a \in ReceiveAndBridgeArgs :
          a.bridge.value <= nativeBalance[Relayer]
              => InOrder(ReceiveAndBridgeTx(a), <<"permit", "transferFrom", "approve", "send">>)
    /\ \A a \in ReceiveAndBridgeGaslessArgs :
          a.bridge.value <= nativeBalance[Relayer]
              => InOrder(ReceiveAndBridgeGaslessTx(a), <<"permitTransferFrom", "approve", "send">>)

\* After a gasless bridge went through, a receiveAndBridge can make its four
\* calls, and another stops at the pull without reaching approve.
C14_Witness ==
    /\ last = "receiveAndBridgeGasless"
    /\ \E a \in ReceiveAndBridgeArgs :
          a.bridge.value <= nativeBalance[Relayer] /\ ReceiveAndBridgeTx(a).ok
    /\ \E a \in ReceiveAndBridgeArgs :
          /\ a.bridge.value <= nativeBalance[Relayer]
          /\ CallNames(ReceiveAndBridgeTx(a)) = <<"permit", "transferFrom">>

Authorized(a) == a.caller = Validator \/ a.to = a.caller

\* The functions of other contracts; none is a function of the component.
ExternalFunctions == {"permit", "transferFrom", "permitTransferFrom", "approve", "send", "balanceOf"}

CallsOnlyOthers(w) == \A i \in 1 .. Len(w.calls) : w.calls[i].fn \in ExternalFunctions

\* C15: withdrawTokens passes its access check exactly when the caller is the
\* component or the destination equals the caller; an external caller naming
\* another destination is rejected with 'Not authorized' before any call and
\* no approval changes; and no operation of the component calls the
\* component, so the caller is never the component.
C15_WithdrawAccessCheck ==
    /\ \A a \in WithdrawTokensArgs :
          LET w == WithdrawTokensTx(a)
          IN /\ a.caller # Validator
             /\ w.err = "Not authorized" <=> ~Authorized(a)
             /\ ~Authorized(a) => ~w.ok /\ w.calls = <<>> /\ w.tokAllow = tokenAllowance
             /\ CallsOnlyOthers(w)
    /\ \A a \in ValidatePermitArgs : CallsOnlyOthers(ValidatePermitTx(a))
    /\ \A a \in ValidatePermitAndTransferArgs : CallsOnlyOthers(ValidatePermitAndTransferTx(a))
    /\ \A a \in ReceiveTokensWithPermitArgs : CallsOnlyOthers(ReceiveTokensWithPermitTx(a))
    /\ \A a \in ReceiveAndBridgeArgs :
          a.bridge.value <= nativeBalance[Relayer] => CallsOnlyOthers(ReceiveAndBridgeTx(a))
    /\ \A a \in ReceiveAndBridgeGaslessArgs :
          a.bridge.value <= nativeBalance[Relayer]
              => CallsOnlyOthers(ReceiveAndBridgeGaslessTx(a))

\* The component holds tokens; a caller naming another destination is
\* refused for an amount the component holds, and a caller naming itself is
\* let through for the same amount.
C15_Witness ==
    /\ balances[Validator] > 0
    /\ \E a \in WithdrawTokensArgs :
          /\ a.amount <= balances[Validator]
          /\ a.to # a.caller
          /\ a.to # NullAddr
          /\ WithdrawTokensTx(a).err = "Not authorized"
    /\ \E a \in WithdrawTokensArgs :
          a.amount <= balances[Validator] /\ a.to = a.caller /\ WithdrawTokensTx(a).ok

NoneToNull(w) ==
    w.ok => \A i \in 1 .. Len(w.calls) :
               /\ w.calls[i].fn \in {"transferFrom", "permitTransferFrom"}
                     => w.calls[i].to # NullAddr
               /\ w.calls[i].fn = "send" => w.calls[i].to.low160 # NullAddr

\* C17: no successful operation delivers tokens to the null address, and
\* validatePermitAndTransfer never delivers to the component: a null
\* recipient, a recipient equal to the component, or a null bridge
\* destination in receiveAndBridge and receiveAndBridgeGasless is rejected
\* before any external call.
C17_NoNullOrSelfDestination ==
    /\ \A a \in ValidatePermitAndTransferArgs :
          LET w == ValidatePermitAndTransferTx(a)
          IN /\ a.recipient \in {NullAddr, Validator} => RejectedLocally(w)
             /\ w.ok => w.bal[Validator] = balances[Validator]
             /\ NoneToNull(w)
    /\ \A a \in ReceiveTokensWithPermitArgs : NoneToNull(ReceiveTokensWithPermitTx(a))
    /\ \A a \in ReceiveAndBridgeArgs :
          LET w == ReceiveAndBridgeTx(a)
          IN a.bridge.value <= nativeBalance[Relayer]
                => /\ a.bridge.dstAddress = NullAddr => RejectedLocally(w)
                   /\ NoneToNull(w)
    /\ \A a \in ReceiveAndBridgeGaslessArgs :
          LET w == ReceiveAndBridgeGaslessTx(a)
          IN a.bridge.value <= nativeBalance[Relayer]
                => /\ a.bridge.dstAddress = NullAddr => RejectedLocally(w)
                   /\ NoneToNull(w)

\* A transfer to the component and a bridge to the null address are refused
\* where the same calls with a real destination go through.
C17_Witness ==
    /\ \E a \in ValidatePermitAndTransferArgs :
          /\ a.recipient = Validator
          /\ ValidatePermitAndTransferTx(a).err = "Cannot transfer to self"
          /\ ValidatePermitAndTransferTx([a EXCEPT !.recipient = Bob]).ok
    /\ \E a \in ReceiveAndBridgeArgs :
          /\ a.bridge.dstAddress = NullAddr
          /\ a.bridge.value <= nativeBalance[Relayer]
          /\ ReceiveAndBridgeTx(a).err = "Invalid destination address"
          /\ ReceiveAndBridgeTx([a EXCEPT !.bridge.dstAddress = Bob]).ok

\* A call that took tokens from the owner began with the registry checking
\* a signature, the signature was the owner's, and the permit was unused.
FreshlySigned(w, signedByOwner, permitId) ==
    (w.ok /\ Taken(w) > 0) =>
        /\ w.calls[1].fn \in {"permit", "permitTransferFrom"}
        /\ signedByOwner
        /\ permitId \notin used

\* C18: every operation that moves an owner's tokens has the registry verify
\* a signature in the same call, so an allowance left standing at the
\* registry by an earlier validatePermit or partial transfer is never spent
\* through the component without a fresh valid signature of the owner.
C18_NoSpendWithoutFreshSignature ==
    /\ \A a \in ValidatePermitAndTransferArgs :
          FreshlySigned(ValidatePermitAndTransferTx(a), a.signature = Alice,
                        AllowanceId(a.permitSingle))
    /\ \A a \in ReceiveTokensWithPermitArgs :
          FreshlySigned(ReceiveTokensWithPermitTx(a), a.signature = Alice,
                        AllowanceId(a.permitSingle))
    /\ \A a \in ReceiveAndBridgeArgs :
          a.bridge.value <= nativeBalance[Relayer]
              => FreshlySigned(ReceiveAndBridgeTx(a), a.signature = Alice,
                               AllowanceId(a.permitSingle))
    /\ \A a \in ReceiveAndBridgeGaslessArgs :
          a.bridge.value <= nativeBalance[Relayer]
              => FreshlySigned(ReceiveAndBridgeGaslessTx(a),
                               a.signature = [signer |-> Alice, spender |-> Validator],
                               TransferId(a.permit))

\* The registry holds an unexpired allowance for the component that the
\* owner's balance and token approval would cover, and a transfer within it
\* presented with another party's signature is refused.
C18_Witness ==
    /\ allowance[<<Token, Validator>>].amount > 0
    /\ now <= allowance[<<Token, Validator>>].expiration
    /\ \E a \in ValidatePermitAndTransferArgs :
          /\ a.signature = Bob
          /\ a.amount <= allowance[<<Token, Validator>>].amount
          /\ a.amount <= balances[Alice]
          /\ a.amount <= tokenAllowance[<<Alice, PERMIT2>>]
          /\ a.permitSingle.nonce = allowance[<<Token, Validator>>].nonce
          /\ ValidatePermitAndTransferTx(a).err = "InvalidSigner"

LocalMessages ==
    {"Invalid recipient", "Cannot transfer to self", "Zero amount", "Amount exceeds permitted",
     "Invalid token", "Invalid spender", "Invalid destination address"}

\* A call presenting a permit: when the permit has timed out and the call
\* gets past the local checks, the registry rejects it and nothing changes;
\* and whatever the time, a rejection by the component itself is one of its
\* own preconditions, none of which is about time.
TimeLeftToRegistry(w, timedOut) ==
    /\ (timedOut /\ ~RejectedLocally(w)) =>
          /\ ~w.ok
          /\ w.calls # <<>>
          /\ w.calls[1].fn \in {"permit", "permitTransferFrom"}
          /\ Ledger(w) = chain
          /\ w.events = <<>>
    /\ RejectedLocally(w) => w.err \in LocalMessages

AllowanceTimedOut(p) == now > p.sigDeadline \/ now > p.expiration

\* C19: the component checks no deadline or expiration itself: an operation
\* presenting a permit whose signature deadline or, for the allowance style,
\* expiration has passed reaches the registry, is rejected there and aborts
\* with all state unchanged; a permit not yet expired is never rejected by
\* the component on time grounds.
C19_ExpiredPermitRejectedByRegistry ==
    /\ \A a \in ValidatePermitArgs :
          TimeLeftToRegistry(ValidatePermitTx(a), AllowanceTimedOut(a.permitSingle))
    /\ \A a \in ValidatePermitAndTransferArgs :
          TimeLeftToRegistry(ValidatePermitAndTransferTx(a), AllowanceTimedOut(a.permitSingle))
    /\ \A a \in ReceiveTokensWithPermitArgs :
          TimeLeftToRegistry(ReceiveTokensWithPermitTx(a), AllowanceTimedOut(a.permitSingle))
    /\ \A a \in ReceiveAndBridgeArgs :
          a.bridge.value <= nativeBalance[Relayer]
              => TimeLeftToRegistry(ReceiveAndBridgeTx(a), AllowanceTimedOut(a.permitSingle))
    /\ \A a \in ReceiveAndBridgeGaslessArgs :
          a.bridge.value <= nativeBalance[Relayer]
              => TimeLeftToRegistry(ReceiveAndBridgeGaslessTx(a), now > a.permit.deadline)

\* The quote for b and amount prices the parameters the flow sends: w is the
\* flow's transaction with the same arguments.
SameParams(w, b, amount) ==
    LET q == QuotedParam(b.dstEid, b.dstAddress, amount, b.minAmountLD, b.extraOptions)
        s == SentParam(b.dstEid, b.dstAddress, amount, b.minAmountLD, b.extraOptions)
        n == Len(w.calls)
    IN /\ q = s
       /\ q.dstEid = b.dstEid
       /\ q.to = [high96 |-> 0, low160 |-> b.dstAddress]
       /\ q.amountLD = amount
       /\ q.minAmountLD = b.minAmountLD
       /\ q.extraOptions = b.extraOptions
       /\ q.composeMsg = <<>>
       /\ q.oftCmd = <<>>
       /\ Quoted(b, amount) = QuoteSend(s).nativeFee
       /\ (n > 0 /\ w.calls[n].fn = "send") =>
             w.calls[n] = [fn |-> "send", from |-> Validator, to |-> q.to, amt |-> q.amountLD]
       /\ w.ok => w.sent = q.amountLD

\* C20: quoteBridge changes no state, and the send parameters it prices are
\* the same field by field (endpoint, 32-byte destination, amount, minimum
\* amount, options, empty compose message, empty command) as those the bridge
\* flows build from the same inputs; it returns the native-fee component of
\* the bridge's quote.
C20_QuoteMatchesSend ==
    /\ \A a \in ReceiveAndBridgeArgs :
          a.bridge.value <= nativeBalance[Relayer]
              => SameParams(ReceiveAndBridgeTx(a), a.bridge, a.amount)
    /\ \A a \in ReceiveAndBridgeGaslessArgs :
          a.bridge.value <= nativeBalance[Relayer]
              => SameParams(ReceiveAndBridgeGaslessTx(a), a.bridge, a.permit.amount)

\* A bridge call with an options payload goes through at the fee quoted for
\* it, and a call with a minimum amount set reaches the bridge's send.
C20_Witness ==
    /\ \E a \in ReceiveAndBridgeArgs :
          /\ a.bridge.extraOptions # <<>>
          /\ a.bridge.value = Quoted(a.bridge, a.amount)
          /\ a.bridge.value <= nativeBalance[Relayer]
          /\ ReceiveAndBridgeTx(a).ok
    /\ \E a \in ReceiveAndBridgeArgs :
          /\ a.bridge.minAmountLD > 0
          /\ a.bridge.value <= nativeBalance[Relayer]
          /\ ReceiveAndBridgeTx(a).err = "SlippageExceeded"

\* Calls of validatePermitAndTransfer with every combination of the values
\* its local checks read, the rest being the usual ones.
LocalCases ==
    Listed([permitSingle : [token : {Token, NullAddr}, amount : PermitAmounts,
                            expiration : {MaxTime}, nonce : Nonces,
                            spender : {Validator, Bob}, sigDeadline : {MaxTime}],
            signature : {Alice}, recipient : Recipients, amount : Amounts])

\* The message of the earliest precondition the call violates, "" if none.
FirstViolated(a) ==
    IF a.recipient = NullAddr THEN "Invalid recipient"
    ELSE IF a.recipient = Validator THEN "Cannot transfer to self"
    ELSE IF a.amount = 0 THEN "Zero amount"
    ELSE IF a.amount > a.permitSingle.amount THEN "Amount exceeds permitted"
    ELSE IF a.permitSingle.token = NullAddr THEN "Invalid token"
    ELSE IF a.permitSingle.spender # Validator THEN "Invalid spender"
    ELSE ""

\* C21: validatePermitAndTransfer evaluates its local preconditions in the
\* order recipient non-null, recipient not the component, amount positive,
\* amount within the bound, token non-null, spender the component, and
\* reports the earliest one violated, before any external call; with none
\* violated it goes on to the registry.
C21_LocalChecksInOrder ==
    \A a \in LocalCases :
        LET w == ValidatePermitAndTransferTx(a)
        IN IF FirstViolated(a) # ""
           THEN ~w.ok /\ w.calls = <<>> /\ w.err = FirstViolated(a)
           ELSE w.calls # <<>> /\ w.calls[1].fn = "permit" /\ w.err \notin LocalMessages

\* With the owner funded and the registry approved, a call violating the
\* first, third and last precondition at once reports the first, one
\* violating the bound and the spender reports the bound, and one violating
\* none goes through.
C21_Witness ==
    /\ tokenAllowance[<<Alice, PERMIT2>>] > 0
    /\ \E a \in LocalCases :
          /\ a.recipient = NullAddr /\ a.amount = 0 /\ a.permitSingle.spender = Bob
          /\ ValidatePermitAndTransferTx(a).err = "Invalid recipient"
    /\ \E a \in LocalCases :
          /\ a.recipient = Bob /\ a.amount > a.permitSingle.amount
          /\ a.permitSingle.spender = Bob
          /\ ValidatePermitAndTransferTx(a).err = "Amount exceeds permitted"
    /\ \E a \in LocalCases : ValidatePermitAndTransferTx(a).ok

\* A call taking an AllowancePermit and an amount, with the component as
\* recipient: locallyBad is what its local checks refuse.
StagedLikeTransfer(w, a, locallyBad) ==
    /\ locallyBad => RejectedLocally(w)
    /\ ~RejectedLocally(w) =>
          /\ ~locallyBad
          /\ w.calls[1] = [fn |-> "permit", from |-> Alice, to |-> Validator,
                           amt |-> a.permitSingle.amount]
          /\ Len(w.calls) >= 2 =>
                w.calls[2] = [fn |-> "transferFrom", from |-> Alice, to |-> Validator,
                              amt |-> a.amount]
          /\ w.ok => Len(w.calls) >= 2

BadForTransfer(a) ==
    \/ a.amount = 0
    \/ a.amount > a.permitSingle.amount
    \/ a.permitSingle.token = NullAddr
    \/ a.permitSingle.spender # Validator

\* C22: receiveTokensWithPermit and receiveAndBridge apply the local checks
\* of validatePermitAndTransfer other than those on the recipient: a zero
\* amount, a null permit token or a spender other than the component makes
\* each fail before any registry or token call, and when the local checks
\* pass the registry calls are permit, then transferFrom to the component
\* for the requested amount.
C22_StagingValidatesLikeTransfer ==
    /\ \A a \in ReceiveTokensWithPermitArgs :
          StagedLikeTransfer(ReceiveTokensWithPermitTx(a), a, BadForTransfer(a))
    /\ \A a \in ReceiveAndBridgeArgs :
          a.bridge.value <= nativeBalance[Relayer]
              => StagedLikeTransfer(ReceiveAndBridgeTx(a), a,
                                    BadForTransfer(a) \/ a.bridge.dstAddress = NullAddr)

\* receiveTokensWithPermit can pull less than the permit's bound, and a
\* receiveAndBridge naming the null token is refused.
C22_Witness ==
    /\ \E a \in ReceiveTokensWithPermitArgs :
          a.amount < a.permitSingle.amount /\ ReceiveTokensWithPermitTx(a).ok
    /\ \E a \in ReceiveAndBridgeArgs :
          /\ a.permitSingle.token = NullAddr
          /\ a.bridge.value <= nativeBalance[Relayer]
          /\ ReceiveAndBridgeTx(a).err = "Invalid token"

RegistryFunctions == {"permit", "transferFrom", "permitTransferFrom"}

RegistryCalls(w) == {i \in 1 .. Len(w.calls) : w.calls[i].fn \in RegistryFunctions}

AmountsOf(w, fn) == {w.calls[i].amt : i \in {j \in 1 .. Len(w.calls) : w.calls[j].fn = fn}}

EventAmounts(w, name) == {w.events[i].amount : i \in {j \in 1 .. Len(w.events) : w.events[j].name = name}}

\* The gasless calls of both amount ranges that the relayer can pay for.
GaslessCases == {a \in ReceiveAndBridgeGaslessArgs \cup WideGaslessArgs : a.bridge.value <= nativeBalance[Relayer]}

\* The registry calls of a gasless call: one permitTransferFrom to the
\* component for the permit's amount, or none when a local check refused.
OnePull(w, a) ==
    /\ \A i \in RegistryCalls(w) :
          /\ i = 1
          /\ w.calls[i] = [fn |-> "permitTransferFrom", from |-> Alice, to |-> Validator,
                           amt |-> a.permit.amount]
    /\ w.calls # <<>> => RegistryCalls(w) = {1}

\* The amount pulled, approved and sent, and the one TokensBridged reports.
PermitAmountThroughout(w, a) ==
    /\ Taken(w) = a.permit.amount
    /\ AmountsOf(w, "approve") = {a.permit.amount}
    /\ AmountsOf(w, "send") = {a.permit.amount}
    /\ w.sent = a.permit.amount
    /\ EventAmounts(w, "TokensBridged") = {a.permit.amount}

\* C23: receiveAndBridgeGasless makes exactly one registry call,
\* permitTransferFrom to the component for the permit's amount, and never
\* permit or transferFrom; the amount pulled, approved, sent to the bridge
\* and reported in both events is the permit's amount.
C23_GaslessUsesPermitAmount ==
    \A a \in GaslessCases :
        LET w == ReceiveAndBridgeGaslessTx(a)
        IN /\ OnePull(w, a)
           /\ w.ok => /\ PermitAmountThroughout(w, a)
                      /\ EventAmounts(w, "TokensTransferred") = {a.permit.amount}

\* What holds of C23 in the code: all of it but the amount of
\* TokensTransferred, which is the permit's amount reduced to 160 bits.
C23_ExceptTransferredEvent ==
    \A a \in GaslessCases :
        LET w == ReceiveAndBridgeGaslessTx(a)
        IN /\ OnePull(w, a)
           /\ w.ok => /\ PermitAmountThroughout(w, a)
                      /\ EventAmounts(w, "TokensTransferred") = {a.permit.amount % (MaxUint160 + 1)}

\* A gasless call for 2^160 units or more succeeds.
C23_WideCallSucceeds ==
    \E a \in GaslessCases : a.permit.amount > MaxUint160 /\ ReceiveAndBridgeGaslessTx(a).ok

\* The calls of a transaction to parties other than the registry.
OtherCalls(w) == SelectSeq(w.calls, LAMBDA c : c.fn \notin RegistryFunctions)

RegistryPart(w) == SelectSeq(w.calls, LAMBDA c : c.fn \in RegistryFunctions)

\* C24: for the same token, amount, owner, destination endpoint and
\* address, minimum amount, options and attached value, receiveAndBridge
\* and receiveAndBridgeGasless issue the same approve call, the same send
\* call (parameters, fee, refund address) and the same TokensTransferred
\* and TokensBridged events, and leave the same balances; they differ only
\* in the registry calls that pull the funds.
C24_BridgeFlowsAgreeAfterPull ==
    \A a \in ReceiveAndBridgeArgs :
        (a.bridge.value <= nativeBalance[Relayer] /\ ReceiveAndBridgeTx(a).ok) =>
            \A g \in ReceiveAndBridgeGaslessArgs :
                (/\ g.permit.token = a.permitSingle.token
                 /\ g.permit.amount = a.amount
                 /\ g.bridge = a.bridge
                 /\ ReceiveAndBridgeGaslessTx(g).ok) =>
                    LET wa == ReceiveAndBridgeTx(a)
                        wg == ReceiveAndBridgeGaslessTx(g)
                    IN /\ OtherCalls(wa) = OtherCalls(wg)
                       /\ Len(OtherCalls(wa)) = 2
                       /\ wa.sends = wg.sends
                       /\ Len(wa.sends) = 1
                       /\ wa.events = wg.events
                       /\ <<wa.bal, wa.native, wa.tokAllow, wa.out>>
                              = <<wg.bal, wg.native, wg.tokAllow, wg.out>>
                       /\ RegistryPart(wa) # RegistryPart(wg)

\* Both flows succeed from the same state on the same amount and bridge
\* fields.
C24_Witness ==
    \E a \in ReceiveAndBridgeArgs : \E g \in ReceiveAndBridgeGaslessArgs :
        /\ a.bridge.value <= nativeBalance[Relayer]
        /\ g.permit.token = a.permitSingle.token
        /\ g.permit.amount = a.amount
        /\ g.bridge = a.bridge
        /\ ReceiveAndBridgeTx(a).ok
        /\ ReceiveAndBridgeGaslessTx(g).ok

\* The send of a successful bridge call carries the whole attached value,
\* names it as the native fee and names no lzToken fee.
ForwardsAll(w, value) ==
    w.ok => /\ Len(w.sends) = 1
            /\ w.sends[1].value = value
            /\ w.sends[1].fee = [nativeFee |-> value, lzTokenFee |-> 0]

NativeKept(w) == w.native[Validator] = nativeBalance[Validator]

\* C25: in both bridge flows the whole native value attached to the call is
\* forwarded to the bridge's send, with fee.nativeFee equal to that value
\* and lzTokenFee 0; the component's own native balance is the same after
\* every operation as before it, so it stays what it was at deployment
\* after any sequence of operations.
C25_NativeValuePassesThrough ==
    /\ nativeBalance[Validator] = 0
    /\ \A a \in ReceiveAndBridgeArgs :
          a.bridge.value <= nativeBalance[Relayer] =>
              /\ ForwardsAll(ReceiveAndBridgeTx(a), a.bridge.value)
              /\ NativeKept(ReceiveAndBridgeTx(a))
    /\ \A a \in ReceiveAndBridgeGaslessArgs :
          a.bridge.value <= nativeBalance[Relayer] =>
              /\ ForwardsAll(ReceiveAndBridgeGaslessTx(a), a.bridge.value)
              /\ NativeKept(ReceiveAndBridgeGaslessTx(a))
    /\ \A a \in ValidatePermitArgs : NativeKept(ValidatePermitTx(a))
    /\ \A a \in ValidatePermitAndTransferArgs : NativeKept(ValidatePermitAndTransferTx(a))
    /\ \A a \in ReceiveTokensWithPermitArgs : NativeKept(ReceiveTokensWithPermitTx(a))
    /\ \A a \in WithdrawTokensArgs : NativeKept(WithdrawTokensTx(a))

\* A bridge call paying more than the quoted fee succeeds, the excess
\* going to the owner.
C25_Witness ==
    /\ nativeBalance[Validator] = 0
    /\ \E a \in ReceiveAndBridgeGaslessArgs :
          LET w == ReceiveAndBridgeGaslessTx(a)
          IN /\ a.bridge.value <= nativeBalance[Relayer]
             /\ w.ok
             /\ a.bridge.value > QuoteSend(w.sends[1].sendParam).nativeFee
             /\ w.native[Alice] > nativeBalance[Alice]

\* The TokensTransferred events of a successful transaction carry what it
\* took from the owner.
ReportsTaken(w) == w.ok => EventAmounts(w, "TokensTransferred") \subseteq {Taken(w)}

\* C26: in every successful operation the amount carried by the
\* TokensTransferred event equals the number of token units taken from the
\* owner, for every permit amount of the 256-bit range that
\* receiveAndBridgeGasless accepts.
C26_TransferredEventReportsTaken ==
    /\ \A a \in ValidatePermitAndTransferArgs : ReportsTaken(ValidatePermitAndTransferTx(a))
    /\ \A a \in ReceiveTokensWithPermitArgs : ReportsTaken(ReceiveTokensWithPermitTx(a))
    /\ \A a \in ReceiveAndBridgeArgs :
          a.bridge.value <= nativeBalance[Relayer] => ReportsTaken(ReceiveAndBridgeTx(a))
    /\ \A a \in GaslessCases : ReportsTaken(ReceiveAndBridgeGaslessTx(a))

\* The sequence-number rule of an allowance-style call with permit p, read
\* at the registry slot (owner, p.token, spender): success only with the
\* slot's current number, which then advances by one and no other slot's
\* does; another number fails and changes nothing; the current number is
\* never the one refused.
NonceRule(w, p, spender) ==
    LET key == <<p.token, spender>>
    IN /\ w.ok => /\ p.nonce = allowance[key].nonce
                  /\ w.p2[key].nonce = allowance[key].nonce + 1
                  /\ \A k \in DOMAIN allowance : k # key => w.p2[k].nonce = allowance[k].nonce
       /\ p.nonce # allowance[key].nonce => ~w.ok /\ Ledger(w) = chain
       /\ p.nonce = allowance[key].nonce => w.err # "InvalidNonce"

NonceRuleEverywhere(Slot(_)) ==
    /\ \A a \in ValidatePermitArgs :
          NonceRule(ValidatePermitTx(a), a.permitSingle, Slot(a.permitSingle))
    /\ \A a \in ValidatePermitAndTransferArgs :
          NonceRule(ValidatePermitAndTransferTx(a), a.permitSingle, Slot(a.permitSingle))
    /\ \A a \in ReceiveTokensWithPermitArgs :
          NonceRule(ReceiveTokensWithPermitTx(a), a.permitSingle, Slot(a.permitSingle))
    /\ \A a \in ReceiveAndBridgeArgs :
          a.bridge.value <= nativeBalance[Relayer] =>
              NonceRule(ReceiveAndBridgeTx(a), a.permitSingle, Slot(a.permitSingle))

\* Every sequence number spent lies below its slot's current one, so that
\* counting upward from it reaches the current one.
UsedBelowCurrent ==
    \A id \in used :
        id.style = "allowance" => id.nonce < allowance[<<id.token, id.spender>>].nonce

ComponentSlot(p) == Validator
SpenderSlot(p) == p.spender

\* C27 as stated: an allowance-style operation succeeds only when the
\* permit's nonce equals the registry's current nonce for (owner, token,
\* component); any other nonce fails with state unchanged; each success
\* advances that nonce by exactly one, so that trying sequence numbers
\* upward from a used one reaches the valid one.
C27_Original == NonceRuleEverywhere(ComponentSlot) /\ UsedBelowCurrent

\* C27, amended: the nonce that decides is the registry's current one for
\* (owner, token, the spender the permit names), which is the component in
\* every allowance-style operation but validatePermit.
C27_NonceOfNamedSpenderDecides == NonceRuleEverywhere(SpenderSlot) /\ UsedBelowCurrent

\* After one use of the component's slot, a call with the used number is
\* refused for its nonce and the call with the next number succeeds.
C27_Witness ==
    /\ allowance[<<Token, Validator>>].nonce = 1
    /\ \E a \in ReceiveTokensWithPermitArgs :
          a.permitSingle.nonce = 0 /\ ReceiveTokensWithPermitTx(a).err = "InvalidNonce"
    /\ \E a \in ReceiveTokensWithPermitArgs :
          a.permitSingle.nonce = 1 /\ ReceiveTokensWithPermitTx(a).ok

C29_StagingMovesExactlyAmount ==
    \A a \in ReceiveTokensWithPermitArgs :
        LET w == ReceiveTokensWithPermitTx(a)
        IN w.ok => /\ a.amount > 0
                   /\ w.bal = [balances EXCEPT ![Validator] = @ + a.amount,
                                               ![Alice] = @ - a.amount]
                   /\ w.native = nativeBalance

\* The component already holds tokens and a further receiveTokensWithPermit
\* for less than the permit's bound succeeds.
C29_Witness ==
    /\ balances[Validator] > 0
    /\ \E a \in ReceiveTokensWithPermitArgs :
          a.amount < a.permitSingle.amount /\ ReceiveTokensWithPermitTx(a).ok

\* A successful transaction that sends into the bridge units the component
\* held before it: more is sent than was pulled from the owner in the call,
\* and the component's balance ends lower than it started.
SendsHeld(w) == w.ok /\ w.sent > Taken(w) /\ w.bal[Validator] < balances[Validator]

\* A successful transaction that leaves what the component held in place.
KeepsHeld(w) == w.ok => w.sent <= Taken(w) /\ w.bal[Validator] >= balances[Validator]

\* C30: funds pulled by receiveTokensWithPermit are staged for bridging:
\* while the component holds such funds, some component operation sends
\* held units into the bridge.  Every state the component's operations lead
\* to is a reachable state, so a sequence of operations ending in such a
\* send exists only if some reachable state has one.
C30_StagedFundsCanBeBridged ==
    balances[Validator] > 0 =>
        \/ \E a \in ReceiveAndBridgeArgs :
              a.bridge.value <= nativeBalance[Relayer] /\ SendsHeld(ReceiveAndBridgeTx(a))
        \/ \E a \in ReceiveAndBridgeGaslessArgs :
              a.bridge.value <= nativeBalance[Relayer] /\ SendsHeld(ReceiveAndBridgeGaslessTx(a))
        \/ \E a \in ValidatePermitArgs : SendsHeld(ValidatePermitTx(a))
        \/ \E a \in ValidatePermitAndTransferArgs : SendsHeld(ValidatePermitAndTransferTx(a))
        \/ \E a \in ReceiveTokensWithPermitArgs : SendsHeld(ReceiveTokensWithPermitTx(a))
        \/ \E a \in WithdrawTokensArgs : SendsHeld(WithdrawTokensTx(a))

\* What the code does instead: in every state no operation of the
\* component sends more than it pulled in the same call or lowers the
\* component's balance, so held funds never enter the bridge.
C30_NoOperationSendsHeldFunds ==
    /\ \A a \in ReceiveAndBridgeArgs :
          a.bridge.value <= nativeBalance[Relayer] => KeepsHeld(ReceiveAndBridgeTx(a))
    /\ \A a \in ReceiveAndBridgeGaslessArgs :
          a.bridge.value <= nativeBalance[Relayer] => KeepsHeld(ReceiveAndBridgeGaslessTx(a))
    /\ \A a \in ValidatePermitArgs : KeepsHeld(ValidatePermitTx(a))
    /\ \A a \in ValidatePermitAndTransferArgs : KeepsHeld(ValidatePermitAndTransferTx(a))
    /\ \A a \in ReceiveTokensWithPermitArgs : KeepsHeld(ReceiveTokensWithPermitTx(a))
    /\ \A a \in WithdrawTokensArgs : KeepsHeld(WithdrawTokensTx(a))

\* The phase an external call belongs to: the registry's permit is part of
\* validating, the registry's transfer calls are the transfer, the token's
\* approve and the bridge's send are the bridging.
PhaseOf(fn) ==
    IF fn = "permit" THEN "Validating"
    ELSE IF fn \in {"transferFrom", "permitTransferFrom"} THEN "Transferring"
    ELSE IF fn \in {"approve", "send"} THEN "Bridging"
    ELSE "Idle"

PhaseRank(ph) == IF ph = "Validating" THEN 1 ELSE IF ph = "Transferring" THEN 2 ELSE IF ph = "Bridging" THEN 3 ELSE 0

\* The phases one operation passes through: the local checks open
\* Validating, each external call is made in its phase, and the operation
\* ends in Idle.
PhaseTrace(w) ==
    <<"Idle", "Validating">> \o [i \in 1 .. Len(w.calls) |-> PhaseOf(w.calls[i].fn)] \o <<"Idle">>

\* Between the two Idle ends the phases never go back, none of them is
\* Idle, Bridging comes only after a transfer call that returned, and the
\* operation ends committed or with the ledger as it found it.
PhasesInOrder(w) ==
    LET t == PhaseTrace(w)
        n == Len(t)
    IN /\ t[1] = "Idle" /\ t[n] = "Idle"
       /\ \A i \in 2 .. (n - 1) : PhaseRank(t[i]) > 0
       /\ \A i \in 2 .. (n - 2) : PhaseRank(t[i]) <= PhaseRank(t[i + 1])
       /\ \A i \in 2 .. (n - 1) :
             t[i] = "Bridging" => \E j \in 2 .. (i - 1) : t[j] = "Transferring"
       /\ w.ok \/ (Ledger(w) = chain /\ w.events = <<>>)

Enters(w, ph) == \E i \in 1 .. Len(PhaseTrace(w)) : PhaseTrace(w)[i] = ph

\* C31: every operation passes through its phases in the order Idle,
\* Validating, optionally Transferring, optionally Bridging, and returns to
\* Idle either fully committed or fully reverted; validatePermit never
\* enters Transferring, Bridging is entered only after the transfer of the
\* same operation completed, and a committed bridge operation went through
\* all of them.
C31_PhasesInOrder ==
    /\ \A a \in ValidatePermitArgs :
          LET w == ValidatePermitTx(a)
          IN PhasesInOrder(w) /\ ~Enters(w, "Transferring") /\ ~Enters(w, "Bridging")
    /\ \A a \in ValidatePermitAndTransferArgs :
          LET w == ValidatePermitAndTransferTx(a)
          IN PhasesInOrder(w) /\ ~Enters(w, "Bridging") /\ (w.ok => Enters(w, "Transferring"))
    /\ \A a \in ReceiveTokensWithPermitArgs :
          LET w == ReceiveTokensWithPermitTx(a)
          IN PhasesInOrder(w) /\ ~Enters(w, "Bridging") /\ (w.ok => Enters(w, "Transferring"))
    /\ \A a \in ReceiveAndBridgeArgs :
          a.bridge.value <= nativeBalance[Relayer] =>
              LET w == ReceiveAndBridgeTx(a)
              IN PhasesInOrder(w) /\ (w.ok => Enters(w, "Bridging"))
    /\ \A a \in ReceiveAndBridgeGaslessArgs :
          a.bridge.value <= nativeBalance[Relayer] =>
              LET w == ReceiveAndBridgeGaslessTx(a)
              IN PhasesInOrder(w) /\ (w.ok => Enters(w, "Bridging"))

\* One bridge call reverts out of Bridging, after its transfer completed,
\* and another commits.
C31_Witness ==
    /\ \E a \in ReceiveAndBridgeArgs :
          LET w == ReceiveAndBridgeTx(a)
          IN /\ a.bridge.value <= nativeBalance[Relayer]
             /\ ~w.ok
             /\ Enters(w, "Bridging")
    /\ \E a \in ReceiveAndBridgeArgs :
          a.bridge.value <= nativeBalance[Relayer] /\ ReceiveAndBridgeTx(a).ok

\* Two executions of one call end alike: the same success or failure, the
\* same external calls, events, token balances and registry state.
SameOutcome(w1, w2) ==
    /\ w1.ok = w2.ok /\ w1.err = w2.err
    /\ w1.calls = w2.calls /\ w1.sends = w2.sends /\ w1.events = w2.events
    /\ <<w1.bal, w1.tokAllow, w1.p2, w1.bitmap, w1.out>> = <<w2.bal, w2.tokAllow, w2.p2, w2.bitmap, w2.out>>

BothCanPay(value) == \A c \in Callers : value <= nativeBalance[c]

\* C32: the outcome of validatePermit, validatePermitAndTransfer,
\* receiveTokensWithPermit, receiveAndBridge and receiveAndBridgeGasless
\* does not depend on the caller: from the same state, with the same
\* arguments and attached value, the owner and the relayer as callers end
\* in the same success or failure, token movements and events; the
\* recipient and the bridge destination are the ones supplied.
C32_OutcomeIndependentOfCaller ==
    /\ \A a \in ValidatePermitArgs :
          SameOutcome(ValidatePermitTxBy(Alice, a), ValidatePermitTxBy(Bob, a))
    /\ \A a \in ValidatePermitAndTransferArgs :
          LET w == ValidatePermitAndTransferTxBy(Alice, a)
          IN /\ SameOutcome(w, ValidatePermitAndTransferTxBy(Bob, a))
             /\ w.ok => w.calls[2].to = a.recipient /\ w.events[1].to = a.recipient
    /\ \A a \in ReceiveTokensWithPermitArgs :
          SameOutcome(ReceiveTokensWithPermitTxBy(Alice, a), ReceiveTokensWithPermitTxBy(Bob, a))
    /\ \A a \in ReceiveAndBridgeArgs :
          BothCanPay(a.bridge.value) =>
              LET w == ReceiveAndBridgeTxBy(Alice, a)
              IN /\ SameOutcome(w, ReceiveAndBridgeTxBy(Bob, a))
                 /\ w.ok => w.sends[1].sendParam.to = AddressToBytes32(a.bridge.dstAddress)
    /\ \A a \in ReceiveAndBridgeGaslessArgs :
          BothCanPay(a.bridge.value) =>
              LET w == ReceiveAndBridgeGaslessTxBy(Alice, a)
              IN /\ SameOutcome(w, ReceiveAndBridgeGaslessTxBy(Bob, a))
                 /\ w.ok => w.sends[1].sendParam.to = AddressToBytes32(a.bridge.dstAddress)

\* Either party can pay for a gasless bridge call that succeeds, and a
\* transfer to a third party succeeds when the owner herself submits it.
C32_Witness ==
    /\ \E a \in ReceiveAndBridgeGaslessArgs :
          /\ BothCanPay(a.bridge.value)
          /\ ReceiveAndBridgeGaslessTxBy(Alice, a).ok
          /\ ReceiveAndBridgeGaslessTxBy(Bob, a).ok
    /\ \E a \in ValidatePermitAndTransferArgs :
          a.recipient = Bob /\ ValidatePermitAndTransferTxBy(Alice, a).ok

\* The send of a successful bridge call names the owner for the refund, the
\* TokensBridged event names the owner as its origin, and the excess over
\* the quoted fee reaches the owner while the caller pays the whole value.
OwnerNamed(w, value) ==
    w.ok => /\ Len(w.sends) = 1
            /\ w.sends[1].refundAddress = Alice
            /\ w.sends[1].refundAddress # w.sender
            /\ \A i \in 1 .. Len(w.events) :
                  w.events[i].name = "TokensBridged" => w.events[i].from = Alice
            /\ \E i \in 1 .. Len(w.events) : w.events[i].name = "TokensBridged"
            /\ w.native[Relayer] = nativeBalance[Relayer] - value
            /\ w.native[Alice] = nativeBalance[Alice] + (value - QuoteSend(w.sends[1].sendParam).nativeFee)

\* C33: in both bridge flows the refund address handed to the bridge's send
\* and the 'from' field of TokensBridged are the permit's owner, never the
\* caller that attached the native fee.
C33_RefundAndOriginAreOwner ==
    /\ \A a \in ReceiveAndBridgeArgs :
          a.bridge.value <= nativeBalance[Relayer] =>
              OwnerNamed(ReceiveAndBridgeTx(a), a.bridge.value)
    /\ \A a \in ReceiveAndBridgeGaslessArgs :
          a.bridge.value <= nativeBalance[Relayer] =>
              OwnerNamed(ReceiveAndBridgeGaslessTx(a), a.bridge.value)

\* The relayer overpays a receiveAndBridge and the owner, who paid nothing,
\* is the one refunded.
C33_Witness ==
    \E a \in ReceiveAndBridgeArgs :
        LET w == ReceiveAndBridgeTx(a)
        IN /\ a.bridge.value <= nativeBalance[Relayer]
           /\ w.ok
           /\ w.sender = Relayer
           /\ w.native[Alice] > nativeBalance[Alice]

\* The component's approval toward the bridge token.
BridgeApproval(w) == w.tokAllow[<<Validator, Token>>]

\* A successful bridge call for `amount` of `token` approves the token
\* contract itself, once, for that amount, and leaves the component's
\* approval at that amount whatever it was before.
ApprovesJustReceived(w, token, amount) ==
    w.ok => /\ \E i \in 1 .. Len(w.calls) :
                  w.calls[i] = [fn |-> "approve", from |-> Validator, to |-> token, amt |-> amount]
            /\ AmountsOf(w, "approve") = {amount}
            /\ Taken(w) = amount
            /\ BridgeApproval(w) = amount

ApprovalUntouched(w) == BridgeApproval(w) = tokenAllowance[<<Validator, Token>>]

\* C34: approvals the component grants toward the bridge token do not
\* accumulate: each bridge operation approves the bridge-token contract
\* itself for exactly the amount just received, replacing the approval
\* that stood, and no other operation changes that approval, so after any
\* sequence of bridge operations it is at most the amount of the most
\* recent one.
C34_BridgeApprovalIsLastAmount ==
    /\ \A a \in ReceiveAndBridgeArgs :
          a.bridge.value <= nativeBalance[Relayer] =>
              ApprovesJustReceived(ReceiveAndBridgeTx(a), a.permitSingle.token, a.amount)
    /\ \A a \in ReceiveAndBridgeGaslessArgs :
          a.bridge.value <= nativeBalance[Relayer] =>
              ApprovesJustReceived(ReceiveAndBridgeGaslessTx(a), a.permit.token, a.permit.amount)
    /\ \A a \in ValidatePermitArgs : ApprovalUntouched(ValidatePermitTx(a))
    /\ \A a \in ValidatePermitAndTransferArgs : ApprovalUntouched(ValidatePermitAndTransferTx(a))
    /\ \A a \in ReceiveTokensWithPermitArgs : ApprovalUntouched(ReceiveTokensWithPermitTx(a))
    /\ \A a \in WithdrawTokensArgs : ApprovalUntouched(WithdrawTokensTx(a))

\* An approval from an earlier bridge operation stands, and a further
\* bridge operation succeeds and leaves the approval at its own amount.
C34_Witness ==
    /\ tokenAllowance[<<Validator, Token>>] > 0
    /\ outboundNonce > 0
    /\ \E a \in ReceiveAndBridgeArgs :
          LET w == ReceiveAndBridgeTx(a)
          IN /\ a.bridge.value <= nativeBalance[Relayer]
             /\ w.ok
             /\ BridgeApproval(w) < tokenAllowance[<<Validator, Token>>] + a.amount

Addresses == {NullAddr, Validator, PERMIT2, Token, Alice, Bob}

====
